---- MODULE Spec2Model ----
(***************************************************************************)
(* A model of the semantic analysis of the Shiru compiler front-end        *)
(* (compileSources and the passes it runs), translated from                *)
(* src/src/grammar.ts (the part that starts at line 781).                  *)
(*                                                                         *)
(* The input of compileSources is a list of parsed sources.  Init draws    *)
(* the sources from small families of syntax trees; every node of a tree   *)
(* carries the SourceLocation the parser gave it.  The passes are the      *)
(* actions; each action runs one call of the top-level loops of            *)
(* compileSources, as the operator translated from the function called.    *)
(***************************************************************************)
EXTENDS Integers, Sequences, FiniteSets, TLC

VARIABLES sources, pc, idx, imp, sourceContext, programContext, program,
          result, error

vars == <<sources, pc, idx, imp, sourceContext, programContext, program,
          result, error>>

---------------------------------------------------------------------------
(* Bounds of the input families. *)

MaxImports == 2
MaxDefs == 2
MaxTypeArguments == 1
MaxFields == 2
MaxFns == 2
MaxStmts == 2

---------------------------------------------------------------------------
(* Generic helpers. *)

Null == [tag |-> "null"]

EmptyMap == <<>>

Has(m, k) == k \in DOMAIN m

Put(m, k, v) == [x \in (DOMAIN m) \cup {k} |-> IF x = k THEN v ELSE m[x]]

SeqUpTo(S, n) == UNION {[1..k -> S] : k \in 0..n}

Range(s) == {s[i] : i \in DOMAIN s}

(* const value = ..; followed by the statements In that read it. *)
Let(value, In(_)) == In(value)

(* A SourceLocation {fileID, offset, length}: the source file, where the  *)
(* text starts and where it ends.  A place in a file is named by the      *)
(* definition it is in, the kind of token and two positions; distinct     *)
(* tokens have distinct places.                                           *)
Loc(sid, d, kind, i, j) == <<sid, <<d, kind, i, j>>, <<d, kind, i, j>>>>

(* ir.locationSpan: from the start of a to the end of b. *)
locationSpan(a, b) == <<a[1], a[2], b[3]>>

NoLocation == <<0, <<>>, <<>>>>

(* ir.locationsSpan of a list of things with a location. *)
locationsSpan(things) ==
    IF Len(things) = 0 THEN NoLocation
    ELSE locationSpan(things[1].location, things[Len(things)].location)

---------------------------------------------------------------------------
(* Errors.  A SemanticError is a record with sem = TRUE; any other thrown *)
(* value (new Error(..), a TypeError of the runtime) has sem = FALSE.     *)

NoErr == [kind |-> "none", sem |-> TRUE]

IsErr(e) == e.kind # "none"

EntityRedefinedErr(name, firstBinding, secondBinding) ==
    [kind |-> "EntityRedefined", sem |-> TRUE, name |-> name,
     firstBinding |-> firstBinding, secondBinding |-> secondBinding]

NoSuchPackageErr(packageName, reference) ==
    [kind |-> "NoSuchPackage", sem |-> TRUE, packageName |-> packageName,
     reference |-> reference]

NoSuchEntityErr(entityName, reference) ==
    [kind |-> "NoSuchEntity", sem |-> TRUE, entityName |-> entityName,
     reference |-> reference]

NamespaceAlreadyDefinedErr(namespace, firstBinding, secondBinding) ==
    [kind |-> "NamespaceAlreadyDefined", sem |-> TRUE, namespace |-> namespace,
     firstBinding |-> firstBinding, secondBinding |-> secondBinding]

PlainError(message) == [kind |-> "Error", sem |-> FALSE, message |-> message]

TypeErrorUndefined(what) == [kind |-> "TypeError", sem |-> FALSE, message |-> what]

---------------------------------------------------------------------------
(* Syntax trees (grammar.Source and below), as the parser builds them.    *)

IdenToken(name, location) == [name |-> name, location |-> location]

ImportOfObject(packageName, objectName, sid, j) ==
    [tag |-> "of-object",
     packageName |-> IdenToken(packageName, Loc(sid, 0, "import-package", j, 0)),
     objectName |-> IdenToken(objectName, Loc(sid, 0, "import-object", j, 0)),
     location |-> Loc(sid, 0, "import", j, 0)]

ImportOfPackage(packageName, sid, j) ==
    [tag |-> "of-package",
     packageName |-> IdenToken(packageName, Loc(sid, 0, "import-package", j, 0)),
     location |-> Loc(sid, 0, "import", j, 0)]

NoTypeParameters == [parameters |-> <<>>, constraints |-> <<>>]

RecordDefinition(name, typeParameters, fields, fns, sid, d) ==
    [tag |-> "record-definition",
     entityName |-> IdenToken(name, Loc(sid, d, "entityName", 0, 0)),
     typeParameters |-> typeParameters,
     fields |-> fields,
     fns |-> fns]

InterfaceDefinition(name, typeParameters, members, sid, d) ==
    [tag |-> "interface-definition",
     entityName |-> IdenToken(name, Loc(sid, d, "entityName", 0, 0)),
     typeParameters |-> typeParameters,
     members |-> members]

PackageDef(name, sid) ==
    [packageName |-> IdenToken(name, Loc(sid, 0, "package", 0, 0))]

Source(package, imports, definitions) ==
    [package |-> package, imports |-> imports, definitions |-> definitions]

---------------------------------------------------------------------------
(* JavaScript objects whose keys the code iterates (for .. in visits the  *)
(* keys in insertion order): the keys in order, and the value at each.    *)

ObjEmpty == [keys |-> <<>>, at |-> EmptyMap]

ObjHas(o, k) == k \in DOMAIN o.at

ObjPut(o, k, v) ==
    [keys |-> IF ObjHas(o, k) THEN o.keys ELSE Append(o.keys, k),
     at |-> Put(o.at, k, v)]

---------------------------------------------------------------------------
(* IR types (ir.Type). *)

TypePrimitive(p) == [tag |-> "type-primitive", primitive |-> p]

TypeVariable(id) == [tag |-> "type-variable", id |-> id]

TypeCompound(record, typeArguments) ==
    [tag |-> "type-compound", record |-> record, type_arguments |-> typeArguments]

T_INT == TypePrimitive("Int")
T_BOOLEAN == TypePrimitive("Boolean")
T_BYTES == TypePrimitive("Bytes")

---------------------------------------------------------------------------
(* Pass 1: collectAllEntities. *)

(* getBasicForeign *)
ForeignSignature(parameters, returnTypes) ==
    [parameters |-> parameters, return_types |-> returnTypes,
     type_parameters |-> <<>>, constraint_parameters |-> <<>>,
     preconditions |-> <<>>, postconditions |-> <<>>]

getBasicForeign ==
    [f \in {"Int==", "Int+", "Int-"} |->
        IF f = "Int==" THEN ForeignSignature(<<T_INT, T_INT>>, <<T_BOOLEAN>>)
        ELSE ForeignSignature(<<T_INT, T_INT>>, <<T_INT>>)]

(* A ProgramContext created with hasCollectedMembers set. *)
CollectedProgramContext ==
    [canonicalByQualifiedName |-> EmptyMap,
     entitiesByCanonical |-> ObjEmpty,
     sourceContexts |-> EmptyMap,
     foreignSignatures |-> getBasicForeign,
     hasCollectedMembers |-> TRUE]

NewProgramContext ==
    [canonicalByQualifiedName |-> EmptyMap,
     entitiesByCanonical |-> ObjEmpty,
     sourceContexts |-> EmptyMap,
     foreignSignatures |-> getBasicForeign,
     hasCollectedMembers |-> FALSE]

RecordTypeScope ==
    [thisType |-> Null, constraints |-> <<>>, typeVariables |-> EmptyMap,
     typeVariableDebugNames |-> <<>>]

(* An interface scope that has no name for This. *)
InterfaceTypeScopeWithoutThis ==
    [thisType |-> TypeVariable(0), constraints |-> <<>>, typeVariables |-> EmptyMap,
     typeVariableDebugNames |-> <<>>]

InterfaceTypeScope ==
    [thisType |-> TypeVariable(0), constraints |-> <<>>, typeVariables |-> EmptyMap,
     typeVariableDebugNames |-> <<"This">>]

NewEntity(definition, sourceID) ==
    IF definition.tag = "record-definition"
    THEN [tag |-> "record", ast |-> definition, sourceID |-> sourceID,
          bindingLocation |-> definition.entityName.location,
          typeScope |-> RecordTypeScope, fields |-> ObjEmpty, fns |-> ObjEmpty]
    ELSE [tag |-> "interface", ast |-> definition, sourceID |-> sourceID,
          bindingLocation |-> definition.entityName.location,
          typeScope |-> InterfaceTypeScope, fns |-> ObjEmpty]

CanonicalName(packageName, entityName) == packageName \o "." \o entityName

(* A collectAllEntities that notices the redefinition of the first    *)
(* entity of a package only.                                          *)
OnlyFirstEntityDefined(pack, entityName) ==
    ObjHas(pack, entityName) /\ pack.keys[1] = entityName

(* A collectAllEntities that takes every name for a new one. *)
EntityNeverDefined(pack, entityName) == FALSE

(* pack[entityName] !== undefined *)
EntityAlreadyDefined(pack, entityName) == ObjHas(pack, entityName)

(* The EntityRedefinedErr of collectAllEntities. *)
RedefinitionError(ctx, pack, packageName, entityName, bindingLocation) ==
    EntityRedefinedErr(packageName \o "." \o entityName,
        ctx.entitiesByCanonical.at[pack.at[entityName]].bindingLocation,
        bindingLocation)

(* const pack = canonicalByQualifiedName[packageName] || {}; and its store *)
WithPackage(ctx, packageName) ==
    IF Has(ctx.canonicalByQualifiedName, packageName)
    THEN ctx
    ELSE [ctx EXCEPT !.canonicalByQualifiedName = Put(@, packageName, ObjEmpty)]

RegisterEntity(ctx, packageName, definition, sourceID) ==
    LET entityName == definition.entityName.name
        canonicalName == CanonicalName(packageName, entityName)
    IN  [ctx EXCEPT
            !.entitiesByCanonical =
                ObjPut(@, canonicalName, NewEntity(definition, sourceID)),
            !.canonicalByQualifiedName[packageName] =
                ObjPut(@, entityName, canonicalName)]

RECURSIVE collectDefinitions(_, _, _, _)
collectDefinitions(ctx0, srcs, sourceID, d) ==
    IF sourceID > Len(srcs)
    THEN [err |-> NoErr, ctx |-> ctx0]
    ELSE
        LET source == srcs[sourceID]
            packageName == source.package.packageName.name
            ctx == WithPackage(ctx0, packageName)
        IN  IF d > Len(source.definitions)
            THEN collectDefinitions(ctx, srcs, sourceID + 1, 1)
            ELSE
                LET definition == source.definitions[d]
                    entityName == definition.entityName.name
                    pack == ctx.canonicalByQualifiedName[packageName]
                IN  IF EntityAlreadyDefined(pack, entityName)
                    THEN [err |-> RedefinitionError(ctx, pack, packageName,
                                      entityName, definition.entityName.location),
                          ctx |-> ctx]
                    ELSE collectDefinitions(
                            RegisterEntity(ctx, packageName, definition, sourceID),
                            srcs, sourceID, d + 1)

collectAllEntities(srcs) == collectDefinitions(NewProgramContext, srcs, 1, 1)

---------------------------------------------------------------------------
(* Pass 2, first half: resolveSourceContext and resolveImport. *)

EntityBinding(canonicalName, bindingLocation) ==
    [canonicalName |-> canonicalName, bindingLocation |-> bindingLocation]

PackageBinding(packageName, bindingLocation) ==
    [packageName |-> packageName, bindingLocation |-> bindingLocation]

(* A resolveImport that takes every imported name for a new one. *)
AliasNeverBound(sc, entityName) == FALSE

(* sourceContext.entityAliases[entityName] !== undefined *)
AliasAlreadyBound(sc, entityName) == Has(sc.entityAliases, entityName)

(* packageName === sourcePackage.packageName.name *)
ImportsOwnPackage(packageName, sourcePackage) ==
    packageName = sourcePackage.packageName.name

(* sourceContext.namespaces[packageName] !== undefined *)
NamespaceAlreadyBound(sc, packageName) == Has(sc.namespaces, packageName)

BindAlias(sc, entityName, canonicalName, bindingLocation) ==
    [sc EXCEPT !.entityAliases =
        Put(@, entityName, EntityBinding(canonicalName, bindingLocation))]

BindNamespace(sc, packageName, bindingLocation) ==
    [sc EXCEPT !.namespaces =
        Put(@, packageName, PackageBinding(packageName, bindingLocation))]

resolveImportOfObject(imported, sc, ctx) ==
    LET packageName == imported.packageName.name
        entityName == imported.objectName.name
    IN  IF ~Has(ctx.canonicalByQualifiedName, packageName)
        THEN [err |-> NoSuchPackageErr(packageName, imported.packageName.location),
              sc |-> sc]
        ELSE IF ~ObjHas(ctx.canonicalByQualifiedName[packageName], entityName)
        THEN [err |-> NoSuchEntityErr(packageName \o "." \o entityName,
                          imported.location),
              sc |-> sc]
        ELSE IF AliasAlreadyBound(sc, entityName)
        THEN [err |-> EntityRedefinedErr(entityName,
                          sc.entityAliases[entityName].bindingLocation,
                          imported.objectName.location),
              sc |-> sc]
        ELSE [err |-> NoErr,
              sc |-> BindAlias(sc, entityName,
                        ctx.canonicalByQualifiedName[packageName].at[entityName],
                        imported.objectName.location)]

resolveImportOfPackage(imported, sourcePackage, sc) ==
    LET packageName == imported.packageName.name
    IN  IF ImportsOwnPackage(packageName, sourcePackage)
        THEN [err |-> NamespaceAlreadyDefinedErr(packageName,
                          sourcePackage.packageName.location,
                          imported.packageName.location),
              sc |-> sc]
        ELSE IF NamespaceAlreadyBound(sc, packageName)
        THEN [err |-> NamespaceAlreadyDefinedErr(packageName,
                          sc.namespaces[packageName].bindingLocation,
                          imported.packageName.location),
              sc |-> sc]
        ELSE [err |-> NoErr,
              sc |-> BindNamespace(sc, packageName, imported.packageName.location)]

resolveImport(imported, sourcePackage, sc, ctx) ==
    IF imported.tag = "of-object"
    THEN resolveImportOfObject(imported, sc, ctx)
    ELSE resolveImportOfPackage(imported, sourcePackage, sc)

(* A resolveSourceContext that brings no entity of the package into scope. *)
bindNoEntities(sc, pack, ctx, k) == sc

(* The first loop of resolveSourceContext: every entity of the source's   *)
(* own package is bound under its short name.                             *)
RECURSIVE bindPackageEntities(_, _, _, _)
bindPackageEntities(sc, pack, ctx, k) ==
    IF k > Len(pack.keys)
    THEN sc
    ELSE LET entityName == pack.keys[k]
             canonicalName == pack.at[entityName]
         IN  bindPackageEntities(
                BindAlias(sc, entityName, canonicalName,
                    ctx.entitiesByCanonical.at[canonicalName].bindingLocation),
                pack, ctx, k + 1)

NewSourceContext == [entityAliases |-> EmptyMap, namespaces |-> EmptyMap]

OwnPackageContext(source, ctx) ==
    bindPackageEntities(NewSourceContext,
        ctx.canonicalByQualifiedName[source.package.packageName.name], ctx, 1)

---------------------------------------------------------------------------
(* Syntax trees of types (grammar.Type). *)

SubLoc(location, part) ==
    Loc(location[1], location[2][1], location[2][2] \o part, location[2][3],
        location[2][4])

TypeKeywordToken(keyword, location) ==
    [tag |-> "type-keyword", keyword |-> keyword, location |-> location]

TypeVarToken(name, location) ==
    [tag |-> "type-var", name |-> name, location |-> location]

PackageQualification(package, location) ==
    [package |-> IdenToken(package, location), location |-> location]

TypeNamed(qualifier, entityName, arguments, location) ==
    [tag |-> "named",
     packageQualification |->
        IF qualifier = "" THEN Null
        ELSE PackageQualification(qualifier, SubLoc(location, "/package")),
     entity |-> IdenToken(entityName, SubLoc(location, "/entity")),
     arguments |-> arguments,
     location |-> location]

---------------------------------------------------------------------------
(* More errors. *)

InvalidThisTypeErr(referenced) ==
    [kind |-> "InvalidThisType", sem |-> TRUE, referenced |-> referenced]

MemberRedefinedErr(memberName, firstBinding, secondBinding) ==
    [kind |-> "MemberRedefined", sem |-> TRUE, memberName |-> memberName,
     firstBinding |-> firstBinding, secondBinding |-> secondBinding]

TypeVariableRedefinedErr(typeVariableName, firstBinding, secondBinding) ==
    [kind |-> "TypeVariableRedefined", sem |-> TRUE,
     typeVariableName |-> typeVariableName,
     firstBinding |-> firstBinding, secondBinding |-> secondBinding]

NoSuchTypeVariableErr(typeVariableName, location) ==
    [kind |-> "NoSuchTypeVariable", sem |-> TRUE,
     typeVariableName |-> typeVariableName, location |-> location]

NonTypeEntityUsedAsTypeErr(entity, entityTag, useLocation, entityBinding) ==
    [kind |-> "NonTypeEntityUsedAsType", sem |-> TRUE, entity |-> entity,
     entityTag |-> entityTag, useLocation |-> useLocation,
     entityBinding |-> entityBinding]

TypeUsedAsConstraintErr(name, kind, typeLocation) ==
    [kind |-> "TypeUsedAsConstraint", sem |-> TRUE, name |-> name,
     entityKind |-> kind, typeLocation |-> typeLocation]

TypesDontSatisfyConstraintErr(neededConstraint, neededLocation, constraintLocation) ==
    [kind |-> "TypesDontSatisfyConstraint", sem |-> TRUE,
     neededConstraint |-> neededConstraint, neededLocation |-> neededLocation,
     constraintLocation |-> constraintLocation]

---------------------------------------------------------------------------
(* ir.typeSubstitute and ir.equalTypes (src has no ir.ts). *)

RECURSIVE typeSubstitute(_, _)
typeSubstitute(t, map) ==
    IF t.tag = "type-compound"
    THEN TypeCompound(t.record,
            [i \in DOMAIN t.type_arguments |->
                typeSubstitute(t.type_arguments[i], map)])
    ELSE IF t.tag = "type-variable" /\ Has(map, t.id)
    THEN map[t.id]
    ELSE t

equalTypes(a, b) == a = b

(* The Map that the callers of typeSubstitute build: position i (from 0) *)
(* is mapped to the i-th type argument.                                  *)
TypeArgumentMapping(typeArguments) ==
    [i \in 0..(Len(typeArguments) - 1) |-> typeArguments[i + 1]]

---------------------------------------------------------------------------
(* displayType and displayConstraint. *)

RECURSIVE JoinComma(_)
JoinComma(strs) ==
    IF Len(strs) = 0 THEN ""
    ELSE IF Len(strs) = 1 THEN strs[1]
    ELSE strs[1] \o ", " \o JoinComma(Tail(strs))

RECURSIVE displayType(_, _)
displayType(t, typeScope) ==
    IF t.tag = "type-compound"
    THEN LET args == [i \in DOMAIN t.type_arguments |->
                        displayType(t.type_arguments[i], typeScope)]
         IN  IF Len(args) = 0 THEN t.record
             ELSE t.record \o "[" \o JoinComma(args) \o "]"
    ELSE IF t.tag = "type-primitive"
    THEN t.primitive
    ELSE IF t.id + 1 \in DOMAIN typeScope.typeVariableDebugNames
         THEN "#" \o typeScope.typeVariableDebugNames[t.id + 1]
         ELSE "#undefined"

displayConstraint(c, typeScope) ==
    LET lhs == displayType(c.subjects[1], typeScope)
        rhs == [i \in 1..(Len(c.subjects) - 1) |->
                    displayType(c.subjects[i + 1], typeScope)]
    IN  IF Len(rhs) = 0
        THEN lhs \o " is " \o c.constraint
        ELSE lhs \o " is " \o c.constraint \o "[" \o JoinComma(rhs) \o "]"

---------------------------------------------------------------------------
(* resolveEntity, compileType, compileConstraint.                         *)
(* sc is the SourceContext and ctx the ProgramContext it refers to.       *)

InvalidCheckConstraints(checkConstraints, ctx) ==
    (checkConstraints = "skip") = ctx.hasCollectedMembers

(* const entitiesInNamespace = canonicalByQualifiedName[namespaceQualifier]; *)
(* entitiesInNamespace[t.entity.name]: a TypeError when the table of the     *)
(* package is undefined.                                                     *)
resolveQualifiedEntity(t, sc, ctx) ==
    LET namespaceQualifier == t.packageQualification.package.name
    IN  IF ~Has(sc.namespaces, namespaceQualifier)
        THEN [err |-> NoSuchPackageErr(namespaceQualifier,
                          t.packageQualification.location),
              canonicalName |-> ""]
        ELSE IF ~Has(ctx.canonicalByQualifiedName, namespaceQualifier)
        THEN [err |-> TypeErrorUndefined("entitiesInNamespace is undefined"),
              canonicalName |-> ""]
        ELSE IF ~ObjHas(ctx.canonicalByQualifiedName[namespaceQualifier],
                        t.entity.name)
        THEN [err |-> NoSuchEntityErr(
                          sc.namespaces[namespaceQualifier].packageName
                              \o "." \o t.entity.name,
                          t.entity.location),
              canonicalName |-> ""]
        ELSE [err |-> NoErr,
              canonicalName |->
                ctx.canonicalByQualifiedName[namespaceQualifier].at[t.entity.name]]

resolveUnqualifiedEntity(t, sc) ==
    IF ~Has(sc.entityAliases, t.entity.name)
    THEN [err |-> NoSuchEntityErr(t.entity.name, t.entity.location),
          canonicalName |-> ""]
    ELSE [err |-> NoErr,
          canonicalName |-> sc.entityAliases[t.entity.name].canonicalName]

resolveEntity(t, sc, ctx) ==
    IF t.packageQualification # Null
    THEN resolveQualifiedEntity(t, sc, ctx)
    ELSE resolveUnqualifiedEntity(t, sc)

(* checkTypeConstraintSatisfied: the search for an implementation is a   *)
(* TODO of the code, which throws for every constraint it is given.      *)
checkTypeConstraintSatisfied(typeArguments, constraint, neededLocation, typeScope) ==
    LET map == TypeArgumentMapping(typeArguments)
        subjects == [i \in DOMAIN constraint.constraint.subjects |->
                        typeSubstitute(constraint.constraint.subjects[i], map)]
        substituted == [constraint |-> constraint.constraint.constraint,
                        subjects |-> subjects]
    IN  IF Len(constraint.constraint.subjects) = 0
        THEN PlainError("ICE: Expected at least one subject")
        ELSE TypesDontSatisfyConstraintErr(
                displayConstraint(substituted, typeScope),
                neededLocation, constraint.location)

(* The loop of compileType over entity.typeScope.constraints. *)
RECURSIVE checkConstraintsOf(_, _, _, _, _)
checkConstraintsOf(constraints, k, typeArguments, neededLocation, typeScope) ==
    IF k > Len(constraints)
    THEN NoErr
    ELSE Let(checkTypeConstraintSatisfied(typeArguments, constraints[k],
                    neededLocation, typeScope),
             LAMBDA e :
             IF IsErr(e) THEN e
             ELSE checkConstraintsOf(constraints, k + 1, typeArguments,
                    neededLocation, typeScope))

(* checkConstraints === "check" in compileType *)
ChecksConstraints(checkConstraints) == checkConstraints = "check"

RECURSIVE compileType(_, _, _, _, _)
RECURSIVE compileTypes(_, _, _, _, _, _, _)

(* ts.map(a => compileType(a, ..)): left to right, the first throw wins *)
compileTypes(ts, k, acc, scope, sc, ctx, checkConstraints) ==
    IF k > Len(ts)
    THEN [err |-> NoErr, ts |-> acc]
    ELSE Let(compileType(ts[k], scope, sc, ctx, checkConstraints),
             LAMBDA r :
             IF IsErr(r.err)
             THEN [err |-> r.err, ts |-> acc]
             ELSE compileTypes(ts, k + 1, Append(acc, r.t), scope, sc, ctx,
                    checkConstraints))

compileType(t, scope, sc, ctx, checkConstraints) ==
    IF InvalidCheckConstraints(checkConstraints, ctx)
    THEN [err |-> PlainError("Invalid checkConstraints argument."), t |-> Null]
    ELSE IF t.tag = "type-keyword"
    THEN IF t.keyword = "This"
         THEN IF scope.thisType = Null
              THEN [err |-> InvalidThisTypeErr(t.location), t |-> Null]
              ELSE [err |-> NoErr, t |-> scope.thisType]
         ELSE IF t.keyword = "String"
         THEN [err |-> NoErr, t |-> TypePrimitive("Bytes")]
         ELSE [err |-> NoErr, t |-> TypePrimitive(t.keyword)]
    ELSE IF t.tag = "named"
    THEN LET resolved == resolveEntity(t, sc, ctx)
         IN  IF IsErr(resolved.err)
             THEN [err |-> resolved.err, t |-> Null]
             ELSE
             LET canonicalName == resolved.canonicalName
                 entity == ctx.entitiesByCanonical.at[canonicalName]
             IN  IF entity.tag # "record"
                 THEN [err |-> NonTypeEntityUsedAsTypeErr(canonicalName,
                                  entity.tag, t.entity.location,
                                  entity.bindingLocation),
                       t |-> Null]
                 ELSE
                 Let(compileTypes(t.arguments, 1, <<>>, scope, sc, ctx,
                                checkConstraints),
                     LAMBDA args :
                     IF IsErr(args.err)
                     THEN [err |-> args.err, t |-> Null]
                     ELSE
                     Let(IF ChecksConstraints(checkConstraints)
                            THEN checkConstraintsOf(entity.typeScope.constraints,
                                    1, args.ts, t.location, scope)
                            ELSE NoErr,
                         LAMBDA unsatisfied :
                         IF IsErr(unsatisfied)
                         THEN [err |-> unsatisfied, t |-> Null]
                         ELSE [err |-> NoErr,
                               t |-> TypeCompound(canonicalName, args.ts)]))
    ELSE IF ~Has(scope.typeVariables, t.name)
         THEN [err |-> NoSuchTypeVariableErr(t.name, t.location), t |-> Null]
         ELSE [err |-> NoErr, t |-> scope.typeVariables[t.name].variable]

compileConstraint(c, methodSubject, sc, scope, ctx, checkConstraints) ==
    IF InvalidCheckConstraints(checkConstraints, ctx)
    THEN [err |-> PlainError("Invalid checkConstraints argument."), c |-> Null]
    ELSE
    LET resolved == resolveEntity(c, sc, ctx)
    IN  IF IsErr(resolved.err)
        THEN [err |-> resolved.err, c |-> Null]
        ELSE
        LET canonicalName == resolved.canonicalName
            entity == ctx.entitiesByCanonical.at[canonicalName]
        IN  IF entity.tag # "interface"
            THEN [err |-> TypeUsedAsConstraintErr(canonicalName, "record",
                              c.location),
                  c |-> Null]
            ELSE
            Let(compileTypes(<<methodSubject>> \o c.arguments, 1,
                                <<>>, scope, sc, ctx, checkConstraints),
                LAMBDA subjects :
                IF IsErr(subjects.err)
                THEN [err |-> subjects.err, c |-> Null]
                ELSE IF checkConstraints = "check"
                        /\ Len(entity.typeScope.constraints) > 0
                THEN [err |-> PlainError("TODO"), c |-> Null]
                ELSE [err |-> NoErr,
                      c |-> [constraint |-> canonicalName,
                             subjects |-> subjects.ts]])

---------------------------------------------------------------------------
(* Pass 2, second half: collectTypeScope and collectMembers. *)

TypeVariableBinding(id, bindingLocation) ==
    [variable |-> TypeVariable(id), bindingLocation |-> bindingLocation]

RECURSIVE collectTypeParameters(_, _, _)
collectTypeParameters(typeScope, parameters, k) ==
    IF k > Len(parameters)
    THEN [err |-> NoErr, typeScope |-> typeScope]
    ELSE
    LET parameter == parameters[k]
    IN  IF Has(typeScope.typeVariables, parameter.name)
        THEN [err |-> TypeVariableRedefinedErr(parameter.name,
                          typeScope.typeVariables[parameter.name].bindingLocation,
                          parameter.location),
              typeScope |-> typeScope]
        ELSE collectTypeParameters(
                [typeScope EXCEPT
                    !.typeVariables = Put(@, parameter.name,
                        TypeVariableBinding(Len(typeScope.typeVariableDebugNames),
                            parameter.location)),
                    !.typeVariableDebugNames = Append(@, parameter.name)],
                parameters, k + 1)

RECURSIVE collectConstraints(_, _, _, _, _)
collectConstraints(typeScope, constraints, k, sc, ctx) ==
    IF k > Len(constraints)
    THEN [err |-> NoErr, typeScope |-> typeScope]
    ELSE
    LET c == constraints[k]
    IN  Let(compileConstraint(c.constraint, c.methodSubject, sc,
                        typeScope, ctx, "skip"),
        LAMBDA compiled :
        IF IsErr(compiled.err)
        THEN [err |-> compiled.err, typeScope |-> typeScope]
        ELSE collectConstraints(
                [typeScope EXCEPT !.constraints =
                    Append(@, [constraint |-> compiled.c, location |-> c.location])],
                constraints, k + 1, sc, ctx))

collectTypeScope(ctx, sourceID, typeScope, typeParameters) ==
    Let(collectTypeParameters(typeScope, typeParameters.parameters, 1),
        LAMBDA withParameters :
        IF IsErr(withParameters.err)
        THEN withParameters
        ELSE collectConstraints(withParameters.typeScope,
                typeParameters.constraints, 1, ctx.sourceContexts[sourceID], ctx))

canonicalFunctionName(entityName, memberName) == entityName \o "." \o memberName

(* entity.fields[fieldName] !== undefined, for a field *)
FieldAlreadyDefined(entity, fieldName) == ObjHas(entity.fields, fieldName)

(* A function with the name of a field is let through. *)
FnNeverNamedAsField(entity, fnName) == FALSE

(* entity.fields[fnName] !== undefined, for a function *)
FnNamedAsField(entity, fnName) == ObjHas(entity.fields, fnName)

(* entity.fns[fnName] !== undefined *)
FnAlreadyDefined(entity, fnName) == ObjHas(entity.fns, fnName)

FieldBinding(nameLocation, t, typeLocation) ==
    [nameLocation |-> nameLocation, t |-> t, typeLocation |-> typeLocation]

RECURSIVE collectFields(_, _, _, _)
collectFields(entity, k, sc, ctx) ==
    IF k > Len(entity.ast.fields)
    THEN [err |-> NoErr, entity |-> entity]
    ELSE
    LET field == entity.ast.fields[k]
        fieldName == field.name.name
    IN  IF FieldAlreadyDefined(entity, fieldName)
        THEN [err |-> MemberRedefinedErr(fieldName,
                          entity.fields.at[fieldName].nameLocation,
                          field.name.location),
              entity |-> entity]
        ELSE
        Let(compileType(field.t, entity.typeScope, sc, ctx, "skip"),
            LAMBDA fieldType :
            IF IsErr(fieldType.err)
            THEN [err |-> fieldType.err, entity |-> entity]
            ELSE collectFields(
                    [entity EXCEPT !.fields = ObjPut(@, fieldName,
                        FieldBinding(field.name.location, fieldType.t,
                            field.t.location))],
                    k + 1, sc, ctx))

(* The parameter and return types of a signature, in "skip" mode. *)
TypeBindings(asts, ts) ==
    [i \in DOMAIN asts |-> [t |-> ts[i], location |-> asts[i].location]]

ParameterTypeASTs(signature) ==
    [i \in DOMAIN signature.parameters |-> signature.parameters[i].t]

collectSignature(signature, typeScope, sc, ctx) ==
    Let(compileTypes(ParameterTypeASTs(signature), 1, <<>>,
                            typeScope, sc, ctx, "skip"),
        LAMBDA parameterTypes :
        IF IsErr(parameterTypes.err)
        THEN [err |-> parameterTypes.err, parameters |-> <<>>, returns |-> <<>>]
        ELSE
        Let(compileTypes(signature.returns, 1, <<>>,
                            typeScope, sc, ctx, "skip"),
            LAMBDA returnTypes :
            IF IsErr(returnTypes.err)
            THEN [err |-> returnTypes.err, parameters |-> <<>>, returns |-> <<>>]
            ELSE [err |-> NoErr,
                  parameters |->
                    TypeBindings(ParameterTypeASTs(signature), parameterTypes.ts),
                  returns |-> TypeBindings(signature.returns, returnTypes.ts)]))

RECURSIVE collectFns(_, _, _, _, _)
collectFns(entity, entityName, k, sc, ctx) ==
    IF k > Len(entity.ast.fns)
    THEN [err |-> NoErr, entity |-> entity]
    ELSE
    LET fn == entity.ast.fns[k]
        fnName == fn.signature.name.name
    IN  IF FnNamedAsField(entity, fnName)
        THEN [err |-> MemberRedefinedErr(fnName,
                          entity.fields.at[fnName].nameLocation,
                          fn.signature.name.location),
              entity |-> entity]
        ELSE IF FnAlreadyDefined(entity, fnName)
        THEN [err |-> MemberRedefinedErr(fnName,
                          entity.fns.at[fnName].nameLocation,
                          fn.signature.name.location),
              entity |-> entity]
        ELSE
        Let(collectSignature(fn.signature, entity.typeScope, sc, ctx),
            LAMBDA sig :
            IF IsErr(sig.err)
            THEN [err |-> sig.err, entity |-> entity]
            ELSE collectFns(
                    [entity EXCEPT !.fns = ObjPut(@, fnName,
                        [nameLocation |-> fn.signature.name.location,
                         parameters |-> sig.parameters,
                         returns |-> sig.returns,
                         ast |-> fn,
                         id |-> canonicalFunctionName(entityName, fnName)])],
                    entityName, k + 1, sc, ctx))

(* entity.fns[fnName] !== undefined, for an interface member *)
InterfaceMemberAlreadyDefined(entity, fnName) == ObjHas(entity.fns, fnName)

RECURSIVE collectInterfaceMembers(_, _, _, _)
collectInterfaceMembers(entity, k, sc, ctx) ==
    IF k > Len(entity.ast.members)
    THEN [err |-> NoErr, entity |-> entity]
    ELSE
    LET member == entity.ast.members[k]
        fnName == member.signature.name.name
    IN  IF InterfaceMemberAlreadyDefined(entity, fnName)
        THEN [err |-> MemberRedefinedErr(fnName,
                          entity.fns.at[fnName].nameLocation,
                          member.signature.name.location),
              entity |-> entity]
        ELSE
        Let(collectSignature(member.signature, entity.typeScope, sc, ctx),
            LAMBDA sig :
            IF IsErr(sig.err)
            THEN [err |-> sig.err, entity |-> entity]
            ELSE collectInterfaceMembers(
                    [entity EXCEPT !.fns = ObjPut(@, fnName,
                        [nameLocation |-> member.signature.name.location,
                         parameters |-> sig.parameters,
                         returns |-> sig.returns,
                         ast |-> member])],
                    k + 1, sc, ctx))

(* collectMembers of one entity: the entity as the call leaves it (also  *)
(* when it throws: the tables are filled in place).  In "skip" mode the  *)
(* types compiled read only the tag and the binding of other entities,   *)
(* which this call does not change.                                      *)
collectMembersOf(entity, entityName, ctx) ==
    LET sc == ctx.sourceContexts[entity.sourceID]
    IN  Let(collectTypeScope(ctx, entity.sourceID, entity.typeScope,
                    entity.ast.typeParameters),
        LAMBDA scoped :
        LET withScope == [entity EXCEPT !.typeScope = scoped.typeScope]
    IN  IF IsErr(scoped.err)
        THEN [err |-> scoped.err, entity |-> withScope]
        ELSE IF entity.tag = "record"
        THEN Let(collectFields(withScope, 1, sc, ctx),
                 LAMBDA withFields :
                 IF IsErr(withFields.err)
                 THEN withFields
                 ELSE collectFns(withFields.entity, entityName, 1, sc, ctx))
        ELSE collectInterfaceMembers(withScope, 1, sc, ctx))

collectMembers(ctx, entityName) ==
    Let(collectMembersOf(ctx.entitiesByCanonical.at[entityName],
                entityName, ctx),
        LAMBDA r :
        [err |-> r.err,
         ctx |-> [ctx EXCEPT !.entitiesByCanonical.at[entityName] = r.entity]])

---------------------------------------------------------------------------
(* Errors of the statement and expression checker. *)

VariableRedefinedErr(name, firstLocation, secondLocation) ==
    [kind |-> "VariableRedefined", sem |-> TRUE, name |-> name,
     firstLocation |-> firstLocation, secondLocation |-> secondLocation]

VariableNotDefinedErr(name, referencedAt) ==
    [kind |-> "VariableNotDefined", sem |-> TRUE, name |-> name,
     referencedAt |-> referencedAt]

MultiExpressionGroupedErr(location, valueCount, grouping, op) ==
    [kind |-> "MultiExpressionGrouped", sem |-> TRUE, location |-> location,
     valueCount |-> valueCount, grouping |-> grouping, op |-> op]

ValueCountMismatchErr(actualCount, actualLocation, expectedCount, expectedLocation) ==
    [kind |-> "ValueCountMismatch", sem |-> TRUE,
     actualCount |-> actualCount, actualLocation |-> actualLocation,
     expectedCount |-> expectedCount, expectedLocation |-> expectedLocation]

TypeMismatchErr(givenType, givenLocation, givenIndex, expectedType, expectedLocation) ==
    [kind |-> "TypeMismatch", sem |-> TRUE,
     givenType |-> givenType, givenLocation |-> givenLocation,
     givenIndex |-> givenIndex,
     expectedType |-> expectedType, expectedLocation |-> expectedLocation]

FieldAccessOnNonCompoundErr(accessedType, accessedLocation) ==
    [kind |-> "FieldAccessOnNonCompound", sem |-> TRUE,
     accessedType |-> accessedType, accessedLocation |-> accessedLocation]

BooleanTypeExpectedErr(givenType, location, reason, what) ==
    [kind |-> "BooleanTypeExpected", sem |-> TRUE, givenType |-> givenType,
     location |-> location, reason |-> reason, what |-> what]

TypeDoesNotProvideOperatorErr(lhsType, operator, operatorLocation) ==
    [kind |-> "TypeDoesNotProvideOperator", sem |-> TRUE, lhsType |-> lhsType,
     operator |-> operator, operatorLocation |-> operatorLocation]

OperatorTypeMismatchErr(lhsType, operator, givenRhsType, expectedRhsType, rhsLocation) ==
    [kind |-> "OperatorTypeMismatch", sem |-> TRUE, lhsType |-> lhsType,
     operator |-> operator, givenRhsType |-> givenRhsType,
     expectedRhsType |-> expectedRhsType, rhsLocation |-> rhsLocation]

CallOnNonCompoundErr(baseType, location) ==
    [kind |-> "CallOnNonCompound", sem |-> TRUE, baseType |-> baseType,
     location |-> location]

NoSuchFnErr(baseType, methodName, methodNameLocation) ==
    [kind |-> "NoSuchFn", sem |-> TRUE, baseType |-> baseType,
     methodName |-> methodName, methodNameLocation |-> methodNameLocation]

OperationRequiresParenthesizationErr(op1, op2, reason) ==
    [kind |-> "OperationRequiresParenthesization", sem |-> TRUE,
     op1 |-> op1, op2 |-> op2, reason |-> reason]

ReturnExpressionUsedOutsideEnsuresErr(returnLocation) ==
    [kind |-> "ReturnExpressionUsedOutsideEnsures", sem |-> TRUE,
     returnLocation |-> returnLocation]

---------------------------------------------------------------------------
(* VariableStack. *)

NewVariableStack == [variables |-> EmptyMap, stack |-> <<>>, blocks |-> <<>>]

VariableBinding(bindingLocation, t, id) ==
    [bindingLocation |-> bindingLocation, t |-> t, id |-> id]

(* this.variables[name] !== undefined *)
VariableInScope(vs, name) == Has(vs.variables, name)

(* A defineVariable that counts the ids from 1. *)
defineVariableFromOne(vs, name, t, location) ==
    IF VariableInScope(vs, name)
    THEN [err |-> VariableRedefinedErr(name,
                      vs.variables[name].bindingLocation, location),
          stack |-> vs, binding |-> Null]
    ELSE [err |-> NoErr,
          stack |-> [vs EXCEPT
                        !.variables = Put(@, name,
                            VariableBinding(location, t, Len(vs.stack) + 1)),
                        !.stack = Append(@, name)],
          binding |-> VariableBinding(location, t, Len(vs.stack) + 1)]

defineVariable(vs, name, t, location) ==
    IF VariableInScope(vs, name)
    THEN [err |-> VariableRedefinedErr(name,
                      vs.variables[name].bindingLocation, location),
          stack |-> vs, binding |-> Null]
    ELSE [err |-> NoErr,
          stack |-> [vs EXCEPT
                        !.variables = Put(@, name,
                            VariableBinding(location, t, Len(vs.stack))),
                        !.stack = Append(@, name)],
          binding |-> VariableBinding(location, t, Len(vs.stack))]

(* A defineTemporary that names every temporary $. *)
defineTemporaryOfOneName(vs, t, location) ==
    defineVariable(vs, "$", t, location)

TemporaryName(vs) == "$" \o ToString(Len(vs.stack))

defineTemporary(vs, t, location) ==
    defineVariable(vs, TemporaryName(vs), t, location)

resolve(vs, variable) ==
    IF ~Has(vs.variables, variable.name)
    THEN [err |-> VariableNotDefinedErr(variable.name, variable.location),
          binding |-> Null]
    ELSE [err |-> NoErr, binding |-> vs.variables[variable.name]]

openBlock(vs) == [vs EXCEPT !.blocks = Append(@, Len(vs.stack))]

(* A closeBlock that forgets the block and keeps its variables. *)
closeBlockKeeping(vs) ==
    IF Len(vs.blocks) = 0
    THEN [err |-> PlainError("block is not open"), stack |-> vs]
    ELSE [err |-> NoErr,
          stack |-> [vs EXCEPT !.blocks = SubSeq(@, 1, Len(@) - 1)]]

(* The names that closeBlock removes: this.stack.splice(start). *)
RemovedNames(vs) ==
    {vs.stack[i] : i \in (vs.blocks[Len(vs.blocks)] + 1)..Len(vs.stack)}

closeBlock(vs) ==
    IF Len(vs.blocks) = 0
    THEN [err |-> PlainError("block is not open"), stack |-> vs]
    ELSE [err |-> NoErr,
          stack |->
            [variables |-> [n \in (DOMAIN vs.variables) \ RemovedNames(vs) |->
                                vs.variables[n]],
             stack |-> SubSeq(vs.stack, 1, vs.blocks[Len(vs.blocks)]),
             blocks |-> SubSeq(vs.blocks, 1, Len(vs.blocks) - 1)]]

---------------------------------------------------------------------------
(* IR ops (ir.Op). *)

OpVar(type) == [tag |-> "op-var", type |-> type]

OpConst(destination, value) ==
    [tag |-> "op-const", destination |-> destination, value |-> value]

OpAssign(destination, source) ==
    [tag |-> "op-assign", destination |-> destination, source |-> source]

OpBranch(condition, trueOps, falseOps) ==
    [tag |-> "op-branch", condition |-> condition,
     trueBranch |-> [ops |-> trueOps], falseBranch |-> [ops |-> falseOps]]

OpStaticCall(function, arguments, typeArguments, destinations, callsite) ==
    [tag |-> "op-static-call", function |-> function, arguments |-> arguments,
     type_arguments |-> typeArguments, destinations |-> destinations,
     diagnostic_callsite |-> callsite]

OpForeign(operation, arguments, destinations) ==
    [tag |-> "op-foreign", operation |-> operation, arguments |-> arguments,
     destinations |-> destinations]

OpReturn(opSources, returnSite) ==
    [tag |-> "op-return", sources |-> opSources,
     diagnostic_return_site |-> returnSite]

OpUnreachable(diagnosticKind, diagnosticLocation) ==
    [tag |-> "op-unreachable", diagnostic_kind |-> diagnosticKind,
     diagnostic_location |-> diagnosticLocation]

(* ir.opTerminates (src has no ir.ts): the op ends the control flow. *)
opTerminates(op) == op.tag \in {"op-return", "op-unreachable"}

---------------------------------------------------------------------------
(* Syntax trees of expressions and statements. *)

OperatorToken(operator, location) ==
    [tag |-> "operator", operator |-> operator, location |-> location]

KeywordToken(keyword, location) ==
    [tag |-> "keyword", keyword |-> keyword, location |-> location]

VarIden(name, location) == [tag |-> "iden", name |-> name, location |-> location]

NumberLiteral(value, location) ==
    [tag |-> "number-literal", value |-> value, location |-> location]

StringLiteral(value, location) ==
    [tag |-> "string-literal", value |-> value, location |-> location]

ExpressionParenthesized(expression, location) ==
    [tag |-> "paren", expression |-> expression, location |-> location]

ExpressionCall(t, methodName, arguments, location) ==
    [tag |-> "call", t |-> t,
     methodName |-> IdenToken(methodName, SubLoc(location, "/method")),
     arguments |-> arguments, location |-> location]

ExpressionNew(location) == [tag |-> "new", args |-> <<>>, location |-> location]

AccessField(fieldName, location) ==
    [tag |-> "field", fieldName |-> IdenToken(fieldName, location)]

AccessMethod(methodName, args, location) ==
    [tag |-> "method", methodName |-> IdenToken(methodName, location),
     args |-> args]

ExpressionOperand(atom, accesses) ==
    [atom |-> atom, accesses |-> accesses, location |-> atom.location]

ExpressionOperation(operator, right) == [operator |-> operator, right |-> right]

Expression(left, operations) ==
    [left |-> left, operations |-> operations,
     location |->
        IF Len(operations) = 0 THEN left.location
        ELSE locationSpan(left.location,
                operations[Len(operations)].right.location)]

---------------------------------------------------------------------------
(* operatorPrecedence, checkTreeCompatible and applyOrderOfOperations. *)

DefaultPrecedence == 2

OperatorPrecedenceOf(opStr) ==
    IF opStr \in {"implies", "and", "or"} THEN 0
    ELSE IF opStr \in {"==", "<", ">", "<=", ">=", "!="} THEN 1
    ELSE DefaultPrecedence

(* Every operator taken as non-associative. *)
NeverAssociative(opStr) == "none"

OperatorAssociativityOf(opStr) ==
    IF opStr = "implies" THEN "right"
    ELSE IF opStr \in {"and", "or", "<", ">"} THEN "left"
    ELSE "none"

OperatorAssociatesOf(opStr) ==
    IF opStr = "<=" THEN "<"
    ELSE IF opStr = ">=" THEN ">"
    ELSE opStr

OpStr(opToken) ==
    IF opToken.tag = "keyword" THEN opToken.keyword ELSE opToken.operator

OperatorTreeJoin(operator, i) ==
    [index |-> i, opToken |-> operator,
     associativity |-> OperatorAssociativityOf(OpStr(operator)),
     precedence |-> OperatorPrecedenceOf(OpStr(operator)),
     associates |-> OperatorAssociatesOf(OpStr(operator))]

OperatorTreeLeaf(operand, i) ==
    [tag |-> "leaf", left |-> i, right |-> i, operand |-> operand,
     location |-> operand.location]

(* An OperatorTreeBranch that spans the two operands next to the join. *)
OperatorTreeBranchOfJoin(join, leftBranch, rightBranch) ==
    [tag |-> "branch", left |-> join.index, right |-> join.index + 1,
     join |-> join, leftBranch |-> leftBranch, rightBranch |-> rightBranch,
     location |-> locationSpan(leftBranch.location, rightBranch.location)]

OperatorTreeBranch(join, leftBranch, rightBranch) ==
    [tag |-> "branch", left |-> leftBranch.left, right |-> rightBranch.right,
     join |-> join, leftBranch |-> leftBranch, rightBranch |-> rightBranch,
     location |-> locationSpan(leftBranch.location, rightBranch.location)]

ParenthesizationOp(opToken) ==
    [str |-> OpStr(opToken), location |-> opToken.location]

checkTreeCompatible(subtree, parent) ==
    IF subtree.tag = "leaf"
    THEN NoErr
    ELSE IF subtree.join.precedence < parent.precedence
    THEN PlainError("unreachable")
    ELSE IF subtree.join.precedence > parent.precedence
    THEN NoErr
    ELSE IF subtree.join.associates # parent.associates
    THEN OperationRequiresParenthesizationErr(
            ParenthesizationOp(subtree.join.opToken),
            ParenthesizationOp(parent.opToken), "unordered")
    ELSE IF parent.associativity = "none"
    THEN OperationRequiresParenthesizationErr(
            ParenthesizationOp(subtree.join.opToken),
            ParenthesizationOp(parent.opToken), "non-associative")
    ELSE NoErr

(* "left".localeCompare("none") < 0, "none".localeCompare("right") < 0 *)
AssociativityRank(a) == IF a = "left" THEN 1 ELSE IF a = "none" THEN 2 ELSE 3

(* The comparator of joins.sort is negative: a is put before b. *)
JoinSortsBefore(a, b) ==
    IF a.precedence # b.precedence
    THEN b.precedence - a.precedence < 0
    ELSE IF a.associativity # b.associativity
    THEN AssociativityRank(a.associativity) < AssociativityRank(b.associativity)
    ELSE b.index - a.index < 0

(* joins.sort(comparator): the comparator is a total order on joins of  *)
(* distinct indices, so the sorted list is the same for any algorithm.  *)
RECURSIVE InsertJoin(_, _)
InsertJoin(sorted, j) ==
    IF Len(sorted) = 0 THEN <<j>>
    ELSE IF JoinSortsBefore(j, sorted[1]) THEN <<j>> \o sorted
    ELSE <<sorted[1]>> \o InsertJoin(Tail(sorted), j)

(* A joins.sort that leaves the joins in the order of the chain. *)
SortJoinsByIndex(joins) == joins

RECURSIVE SortJoins(_)
SortJoins(joins) ==
    IF Len(joins) = 0 THEN <<>>
    ELSE InsertJoin(SortJoins(Tail(joins)), joins[1])

RECURSIVE foldJoins(_, _, _, _)
foldJoins(joins, k, branches, branch) ==
    IF k > Len(joins)
    THEN [err |-> NoErr, tree |-> branch]
    ELSE
    LET join == joins[k]
        left == branches[join.index + 1]
        right == branches[join.index + 2]
        joined == OperatorTreeBranch(join, left, right)
        leftErr == checkTreeCompatible(left, join)
        rightErr == checkTreeCompatible(right, join)
    IN  IF IsErr(leftErr) THEN [err |-> leftErr, tree |-> joined]
        ELSE IF IsErr(rightErr) THEN [err |-> rightErr, tree |-> joined]
        ELSE foldJoins(joins, k + 1,
                [branches EXCEPT ![joined.left + 1] = joined,
                                 ![joined.right + 1] = joined],
                joined)

applyOrderOfOperations(operators, operands) ==
    IF Len(operators) # Len(operands) - 1
    THEN [err |-> PlainError(""), tree |-> Null]
    ELSE
    Let(SortJoins([i \in DOMAIN operators |->
                    OperatorTreeJoin(operators[i], i - 1)]),
        LAMBDA joins :
        LET branches == [i \in DOMAIN operands |-> OperatorTreeLeaf(operands[i], i - 1)]
    IN  foldJoins(joins, 1, branches, branches[1]))

---------------------------------------------------------------------------
(* The expression checker.  Every operator takes the ops emitted so far  *)
(* and the VariableStack and gives them back as the call leaves them,    *)
(* with the error thrown (if any) and the ValueInfo returned.  context   *)
(* is the FunctionContext; context.programContext stands for             *)
(* context.sourceContext.programContext.                                 *)

Value(t, id) == [t |-> t, id |-> id]

Thrown(e, ops, stack) ==
    [err |-> e, ops |-> ops, stack |-> stack, values |-> <<>>, location |-> NoLocation]

Returned(ops, stack, values, location) ==
    [err |-> NoErr, ops |-> ops, stack |-> stack, values |-> values,
     location |-> location]

getRecord(context, record) == context.programContext.entitiesByCanonical.at[record]

(* A literal: defineTemporary, op-var, op-const. *)
compileLiteral(t, value, location, ops, stack) ==
    LET v == defineTemporary(stack, t, location)
    IN  IF IsErr(v.err)
        THEN Thrown(v.err, ops, stack)
        ELSE Returned(ops \o <<OpVar(v.binding.t), OpConst(v.binding.id, value)>>,
                v.stack, <<Value(v.binding.t, v.binding.id)>>, location)

(* A return expression refused wherever it is written. *)
ReturnExpressionAlwaysIllegal(context) == TRUE

(* context.ensuresReturnExpression === null *)
ReturnExpressionIllegal(context) == context.ensuresReturnExpression = Null

(* Every operator resolved as the addition of Int. *)
resolveAnyOperator(lhs, operator, typeScope) == [err |-> NoErr, fn |-> "Int+"]

resolveOperator(lhs, operator, typeScope) ==
    LET opStr == operator.operator
    IN  IF Len(lhs.values) # 1
        THEN [err |-> MultiExpressionGroupedErr(lhs.location, Len(lhs.values),
                          "op", opStr),
              fn |-> ""]
        ELSE IF equalTypes(T_INT, lhs.values[1].t) /\ opStr = "+"
        THEN [err |-> NoErr, fn |-> "Int+"]
        ELSE IF equalTypes(T_INT, lhs.values[1].t) /\ opStr = "-"
        THEN [err |-> NoErr, fn |-> "Int-"]
        ELSE IF equalTypes(T_INT, lhs.values[1].t) /\ opStr = "=="
        THEN [err |-> NoErr, fn |-> "Int=="]
        ELSE [err |-> TypeDoesNotProvideOperatorErr(
                          displayType(lhs.values[1].t, typeScope), opStr,
                          operator.location),
              fn |-> ""]

expectOneBooleanForContract(values, typeScope, contract) ==
    IF Len(values.values) # 1
    THEN MultiExpressionGroupedErr(values.location, Len(values.values), "op",
            contract)
    ELSE IF ~equalTypes(T_BOOLEAN, values.values[1].t)
    THEN BooleanTypeExpectedErr(displayType(values.values[1].t, typeScope),
            values.location, "contract", contract)
    ELSE NoErr

expectOneBooleanForLogical(values, typeScope, opStr) ==
    IF Len(values.values) # 1
    THEN MultiExpressionGroupedErr(values.location, Len(values.values), "op",
            opStr)
    ELSE IF ~equalTypes(T_BOOLEAN, values.values[1].t)
    THEN BooleanTypeExpectedErr(displayType(values.values[1].t, typeScope),
            values.location, "logical-op", opStr)
    ELSE NoErr

(* The flattened values of a list of tuples: {tuple, i} for each value. *)
RECURSIVE FlattenTuples(_)
FlattenTuples(tuples) ==
    IF Len(tuples) = 0 THEN <<>>
    ELSE [i \in DOMAIN tuples[1].values |-> [tuple |-> tuples[1], i |-> i]]
            \o FlattenTuples(Tail(tuples))

FlatValue(v) == v.tuple.values[v.i]

RECURSIVE compileExpression(_, _, _, _, _)
RECURSIVE compileExpressionTree(_, _, _, _, _)
RECURSIVE compileOperand(_, _, _, _, _)
RECURSIVE compileExpressionAtom(_, _, _, _, _)
RECURSIVE compileCallExpression(_, _, _, _, _)
RECURSIVE compileExpressions(_, _, _, _, _, _, _)
RECURSIVE checkArguments(_, _, _, _, _, _)
RECURSIVE defineReturns(_, _, _, _, _, _, _)

(* for (const e of es) { const tuple = compileExpression(e, ..); .. } *)
compileExpressions(es, k, tuples, ops, stack, typeScope, context) ==
    IF k > Len(es)
    THEN [err |-> NoErr, ops |-> ops, stack |-> stack, tuples |-> tuples]
    ELSE Let(compileExpression(es[k], ops, stack, typeScope, context),
             LAMBDA r :
             IF IsErr(r.err)
             THEN [err |-> r.err, ops |-> r.ops, stack |-> r.stack,
                   tuples |-> tuples]
             ELSE compileExpressions(es, k + 1, Append(tuples, r), r.ops,
                    r.stack, typeScope, context))

(* Every argument passed whatever its type. *)
NoArgumentChecked(argValues, k, fn, typeArgumentMapping, typeScope, argumentSources) ==
    [err |-> NoErr,
     argumentSources |->
        [i \in DOMAIN argValues |-> argValues[i].tuple.values[argValues[i].i].id]]

(* The loop of compileCallExpression that checks each argument's type. *)
checkArguments(argValues, k, fn, typeArgumentMapping, typeScope, argumentSources) ==
    IF k > Len(argValues)
    THEN [err |-> NoErr, argumentSources |-> argumentSources]
    ELSE
    LET value == argValues[k]
        valueType == FlatValue(value).t
        expectedType == typeSubstitute(fn.parameters[k].t, typeArgumentMapping)
    IN  IF ~equalTypes(expectedType, valueType)
        THEN [err |-> TypeMismatchErr(displayType(valueType, typeScope),
                          value.tuple.location,
                          [index0 |-> value.i - 1,
                           count |-> Len(value.tuple.values)],
                          displayType(expectedType, typeScope),
                          fn.parameters[k].location),
              argumentSources |-> argumentSources]
        ELSE checkArguments(argValues, k + 1, fn, typeArgumentMapping,
                typeScope, Append(argumentSources, FlatValue(value).id))

(* The loop of compileCallExpression that defines a temporary for each *)
(* return type of the callee.                                          *)
defineReturns(fn, k, typeArgumentMapping, location, ops, stack, info) ==
    IF k > Len(fn.returns)
    THEN [err |-> NoErr, ops |-> ops, stack |-> stack, info |-> info]
    ELSE
    LET returnType == typeSubstitute(fn.returns[k].t, typeArgumentMapping)
        d == defineTemporary(stack, returnType, location)
    IN  IF IsErr(d.err)
        THEN [err |-> d.err, ops |-> ops, stack |-> stack, info |-> info]
        ELSE defineReturns(fn, k + 1, typeArgumentMapping, location,
                Append(ops, OpVar(d.binding.t)), d.stack,
                Append(info, Value(returnType, d.binding.id)))

compileCallExpression(e, ops, stack, typeScope, context) ==
    Let(compileType(e.t, typeScope, context.sourceContext,
                    context.programContext, "check"),
        LAMBDA base :
        IF IsErr(base.err) THEN Thrown(base.err, ops, stack)
        ELSE IF base.t.tag # "type-compound"
        THEN Thrown(CallOnNonCompoundErr(displayType(base.t, typeScope),
                        e.t.location), ops, stack)
        ELSE
        LET record == getRecord(context, base.t.record)
        IN  IF record.tag # "record"
            THEN Thrown(PlainError("ICE: Bad record ID"), ops, stack)
            ELSE IF ~ObjHas(record.fns, e.methodName.name)
            THEN Thrown(NoSuchFnErr(displayType(base.t, typeScope),
                            e.methodName.name, e.methodName.location), ops, stack)
            ELSE
            LET fn == record.fns.at[e.methodName.name]
            IN  Let(compileExpressions(e.arguments, 1, <<>>, ops, stack,
                            typeScope, context),
                LAMBDA args :
                LET argValues == FlattenTuples(args.tuples)
                typeArgumentMapping == TypeArgumentMapping(base.t.type_arguments)
            IN  IF IsErr(args.err) THEN Thrown(args.err, args.ops, args.stack)
                ELSE IF Len(argValues) # Len(fn.parameters)
                THEN Thrown(ValueCountMismatchErr(Len(argValues),
                                locationsSpan(e.arguments), Len(fn.parameters),
                                locationsSpan(fn.parameters)),
                            args.ops, args.stack)
                ELSE
                Let(checkArguments(argValues, 1, fn,
                                typeArgumentMapping, typeScope, <<>>),
                    LAMBDA checked :
                    IF IsErr(checked.err)
                    THEN Thrown(checked.err, args.ops, args.stack)
                    ELSE
                    Let(defineReturns(fn, 1, typeArgumentMapping,
                                    e.location, args.ops, args.stack, <<>>),
                        LAMBDA rets :
                        IF IsErr(rets.err)
                        THEN Thrown(rets.err, rets.ops, rets.stack)
                        ELSE Returned(
                                Append(rets.ops,
                                    OpStaticCall(fn.id, checked.argumentSources,
                                        base.t.type_arguments,
                                        [i \in DOMAIN rets.info |-> rets.info[i].id],
                                        e.location)),
                                rets.stack, rets.info, e.location)))))

compileExpressionAtom(e, ops, stack, typeScope, context) ==
    IF e.tag = "iden"
    THEN LET v == resolve(stack, e)
         IN  IF IsErr(v.err) THEN Thrown(v.err, ops, stack)
             ELSE Returned(ops, stack, <<Value(v.binding.t, v.binding.id)>>,
                    e.location)
    ELSE IF e.tag = "paren"
    THEN Let(compileExpression(e.expression, ops, stack,
                            typeScope, context),
             LAMBDA component :
             IF IsErr(component.err) THEN component
             ELSE IF Len(component.values) # 1
             THEN Thrown(MultiExpressionGroupedErr(e.location,
                            Len(component.values), "parens", ""),
                        component.ops, component.stack)
             ELSE component)
    ELSE IF e.tag = "number-literal"
    THEN compileLiteral(T_INT, [number |-> e.value], e.location, ops, stack)
    ELSE IF e.tag = "call"
    THEN compileCallExpression(e, ops, stack, typeScope, context)
    ELSE IF e.tag = "keyword"
    THEN IF e.keyword = "false" \/ e.keyword = "true"
         THEN compileLiteral(T_BOOLEAN, [boolean |-> e.keyword = "true"],
                e.location, ops, stack)
         ELSE IF e.keyword = "return"
         THEN IF ReturnExpressionIllegal(context)
              THEN Thrown(ReturnExpressionUsedOutsideEnsuresErr(e.location),
                        ops, stack)
              ELSE Returned(ops, stack, context.ensuresReturnExpression.values,
                        e.location)
         ELSE Thrown(PlainError("compileExpressionAtom: keyword"), ops, stack)
    ELSE IF e.tag = "new"
    THEN Thrown(PlainError("TODO"), ops, stack)
    ELSE IF e.tag = "string-literal"
    THEN compileLiteral(T_BYTES, [bytes |-> e.value], e.location, ops, stack)
    ELSE Thrown(PlainError("TODO: Unhandled tag in compileExpressionAtom"),
            ops, stack)

(* One turn of the loop of compileOperand over e.accesses: every path *)
(* through the loop body throws.                                      *)
compileAccess(access, value, typeScope) ==
    IF Len(value.values) # 1
    THEN MultiExpressionGroupedErr(value.location, Len(value.values),
            access.tag, "")
    ELSE IF access.tag = "field"
    THEN IF value.values[1].t.tag # "type-compound"
         THEN FieldAccessOnNonCompoundErr(
                displayType(value.values[1].t, typeScope),
                access.fieldName.location)
         ELSE PlainError("TODO: compileOperand field access")
    ELSE IF access.tag = "method"
    THEN PlainError("TODO: compileOperand method access")
    ELSE PlainError("unhandled access tag in compileOperand")

compileOperand(e, ops, stack, typeScope, context) ==
    Let(compileExpressionAtom(e.atom, ops, stack, typeScope, context),
        LAMBDA value :
        IF IsErr(value.err) THEN value
        ELSE IF Len(e.accesses) > 0
        THEN Thrown(compileAccess(e.accesses[1], value, typeScope),
                value.ops, value.stack)
        ELSE value)

(* A compileLogicalRight that opens no block for the right operand. *)
compileLogicalRightInPlace(tree, firstOps, resultId, opStr, stack, typeScope, context) ==
    Let(compileExpressionTree(tree.rightBranch, firstOps, stack,
            typeScope, context),
        LAMBDA right :
        LET rightErr == expectOneBooleanForLogical(right, typeScope, opStr)
        IN  IF IsErr(right.err) THEN right
            ELSE IF IsErr(rightErr)
            THEN Thrown(rightErr, right.ops, right.stack)
            ELSE Returned(
                    Append(right.ops, OpAssign(resultId, right.values[1].id)),
                    right.stack, <<>>, tree.location))

(* The branch of a logical operation that evaluates the right operand: *)
(* openBlock, the right subtree into the branch's ops (which start as  *)
(* firstOps), the op-assign of the result, closeBlock.                  *)
compileLogicalRight(tree, firstOps, resultId, opStr, stack, typeScope, context) ==
    Let(compileExpressionTree(tree.rightBranch, firstOps, openBlock(stack),
            typeScope, context),
        LAMBDA right :
        LET rightErr == expectOneBooleanForLogical(right, typeScope, opStr)
            closed == closeBlock(right.stack)
        IN  IF IsErr(right.err) THEN right
            ELSE IF IsErr(rightErr)
            THEN Thrown(rightErr, right.ops, right.stack)
            ELSE IF IsErr(closed.err)
            THEN Thrown(closed.err, right.ops, right.stack)
            ELSE Returned(
                    Append(right.ops, OpAssign(resultId, right.values[1].id)),
                    closed.stack, <<>>, tree.location))

compileLogicalOperation(tree, left, typeScope, context) ==
    LET opStr == tree.join.opToken.keyword
        leftErr == expectOneBooleanForLogical(left, typeScope, opStr)
        resultVar == defineTemporary(left.stack, T_BOOLEAN, tree.location)
        leftId == left.values[1].id
        resultId == resultVar.binding.id
        ops == Append(left.ops, OpVar(resultVar.binding.t))
        shortCircuit ==
            IF opStr = "implies" THEN <<OpConst(resultId, TRUE)>>
            ELSE <<OpAssign(resultId, leftId)>>
    IN  IF IsErr(leftErr) THEN Thrown(leftErr, left.ops, left.stack)
        ELSE IF IsErr(resultVar.err)
        THEN Thrown(resultVar.err, left.ops, left.stack)
        ELSE IF opStr \notin {"or", "and", "implies"}
        THEN Thrown(PlainError("Unhandled logical operator"), ops,
                resultVar.stack)
        ELSE
        Let(compileLogicalRight(tree, <<>>, resultId, opStr, resultVar.stack,
                typeScope, context),
            LAMBDA evaluated :
            IF IsErr(evaluated.err)
            THEN Thrown(evaluated.err, ops, evaluated.stack)
            ELSE Returned(
                    Append(ops,
                        IF opStr = "or"
                        THEN OpBranch(leftId, shortCircuit, evaluated.ops)
                        ELSE OpBranch(leftId, evaluated.ops, shortCircuit)),
                    evaluated.stack,
                    <<Value(resultVar.binding.t, resultId)>>, tree.location))

compileArithmeticOperation(tree, left, typeScope, context) ==
    Let(compileExpressionTree(tree.rightBranch, left.ops, left.stack,
            typeScope, context),
        LAMBDA right :
        LET opStr == tree.join.opToken.operator
            fn == resolveOperator(left, tree.join.opToken, typeScope)
            signatures == context.programContext.foreignSignatures
            resultVar == defineTemporary(right.stack,
                            signatures[fn.fn].return_types[1],
                            locationSpan(left.location, right.location))
        IN  IF IsErr(right.err) THEN right
            ELSE IF IsErr(fn.err) THEN Thrown(fn.err, right.ops, right.stack)
            ELSE IF ~Has(signatures, fn.fn)
            THEN Thrown(PlainError(
                            "resolveOperator produced a bad foreign signature"),
                    right.ops, right.stack)
            ELSE IF Len(signatures[fn.fn].parameters) # 2
            THEN Thrown(PlainError(
                            "Foreign signature cannot be used as an operator"),
                    right.ops, right.stack)
            ELSE IF Len(right.values) # 1
            THEN Thrown(MultiExpressionGroupedErr(right.location,
                            Len(right.values), "op", opStr),
                    right.ops, right.stack)
            ELSE IF ~equalTypes(signatures[fn.fn].parameters[2],
                        right.values[1].t)
            THEN Thrown(OperatorTypeMismatchErr(
                            displayType(left.values[1].t, typeScope), opStr,
                            displayType(right.values[1].t, typeScope),
                            displayType(signatures[fn.fn].parameters[2],
                                typeScope),
                            right.location),
                    right.ops, right.stack)
            ELSE IF Len(signatures[fn.fn].return_types) # 1
            THEN Thrown(PlainError("Foreign signature produces several values"),
                    right.ops, right.stack)
            ELSE IF IsErr(resultVar.err)
            THEN Thrown(resultVar.err, right.ops, right.stack)
            ELSE Returned(
                    right.ops \o
                        <<OpVar(resultVar.binding.t),
                          OpForeign(fn.fn,
                            <<left.values[1].id, right.values[1].id>>,
                            <<resultVar.binding.id>>)>>,
                    resultVar.stack,
                    <<Value(resultVar.binding.t, resultVar.binding.id)>>,
                    resultVar.binding.bindingLocation))

compileExpressionTree(tree, ops, stack, typeScope, context) ==
    IF tree.tag = "leaf"
    THEN compileOperand(tree.operand, ops, stack, typeScope, context)
    ELSE
    Let(compileExpressionTree(tree.leftBranch, ops, stack, typeScope,
                    context),
        LAMBDA left :
        IF IsErr(left.err) THEN left
        ELSE IF tree.join.opToken.tag = "keyword"
        THEN compileLogicalOperation(tree, left, typeScope, context)
        ELSE compileArithmeticOperation(tree, left, typeScope, context))

compileExpression(e, ops, stack, typeScope, context) ==
    LET operands == <<e.left>> \o [i \in DOMAIN e.operations |->
                                        e.operations[i].right]
        operators == [i \in DOMAIN e.operations |-> e.operations[i].operator]
    IN  Let(applyOrderOfOperations(operators, operands),
        LAMBDA tree :
        IF IsErr(tree.err) THEN Thrown(tree.err, ops, stack)
        ELSE compileExpressionTree(tree.tree, ops, stack, typeScope, context))

---------------------------------------------------------------------------
(* Statements.  Each operator gives back the ops and the VariableStack as *)
(* the call leaves them, and the error thrown (if any).                   *)

Failed(e, ops, stack) == [err |-> e, ops |-> ops, stack |-> stack]

Done(ops, stack) == [err |-> NoErr, ops |-> ops, stack |-> stack]

(* Statement ASTs. *)
VarDecl(name, t, location) ==
    [variable |-> IdenToken(name, SubLoc(location, "name")), t |-> t,
     location |-> location]

VarSt(variables, initialization, location) ==
    [tag |-> "var", variables |-> variables,
     initialization |-> initialization, location |-> location]

ReturnSt(values, location) ==
    [tag |-> "return", values |-> values, location |-> location]

IfSt(condition, body, elseIfClauses, elseClause, location) ==
    [tag |-> "if", condition |-> condition, body |-> body,
     elseIfClauses |-> elseIfClauses, elseClause |-> elseClause,
     location |-> location]

UnreachableSt(location) == [tag |-> "unreachable", location |-> location]

Block(statements, location) ==
    [statements |-> statements, closing |-> SubLoc(location, "closing"),
     location |-> location]

(* The value moved to the variable whatever their types. *)
assignUnchecked(value, destination, ops, typeScope) ==
    [err |-> NoErr,
     ops |-> Append(ops, [tag |-> "op-assign", destination |-> destination.id,
                          source |-> value.tuple.values[value.i].id])]

compileAssignment(value, destination, ops, typeScope) ==
    LET sourceType == FlatValue(value).t
    IN  IF ~equalTypes(sourceType, destination.t)
        THEN [err |-> TypeMismatchErr(displayType(sourceType, typeScope),
                          value.tuple.location, Null,
                          displayType(destination.t, typeScope),
                          destination.bindingLocation),
              ops |-> ops]
        ELSE [err |-> NoErr,
              ops |-> Append(ops, OpAssign(destination.id, FlatValue(value).id))]

(* for (const v of statement.variables) { compileType; defineVariable; .. } *)
RECURSIVE declareVariables(_, _, _, _, _, _, _)
declareVariables(variables, k, destinations, ops, stack, typeScope, context) ==
    IF k > Len(variables)
    THEN [err |-> NoErr, ops |-> ops, stack |-> stack,
          destinations |-> destinations]
    ELSE
    LET v == variables[k]
    IN  Let(compileType(v.t, typeScope, context.sourceContext,
                context.programContext, "check"),
        LAMBDA t :
        LET d == defineVariable(stack, v.variable.name, t.t, v.variable.location)
    IN  IF IsErr(t.err)
        THEN [err |-> t.err, ops |-> ops, stack |-> stack,
              destinations |-> destinations]
        ELSE IF IsErr(d.err)
        THEN [err |-> d.err, ops |-> ops, stack |-> stack,
              destinations |-> destinations]
        ELSE declareVariables(variables, k + 1, Append(destinations, d.binding),
                Append(ops, OpVar(t.t)), d.stack, typeScope, context))

(* for (let i = 0; i < values.length; i++) compileAssignment(..) *)
RECURSIVE compileAssignments(_, _, _, _, _)
compileAssignments(values, destinations, k, ops, typeScope) ==
    IF k > Len(values)
    THEN [err |-> NoErr, ops |-> ops]
    ELSE Let(compileAssignment(values[k], destinations[k], ops, typeScope),
             LAMBDA a :
             IF IsErr(a.err) THEN a
             ELSE compileAssignments(values, destinations, k + 1, a.ops,
                    typeScope))

compileVarSt(statement, ops, stack, typeScope, context) ==
    Let(compileExpressions(statement.initialization, 1, <<>>, ops, stack,
            typeScope, context),
        LAMBDA inits :
        IF IsErr(inits.err) THEN Failed(inits.err, inits.ops, inits.stack)
        ELSE
        Let(declareVariables(statement.variables, 1, <<>>, inits.ops,
                inits.stack, typeScope, context),
            LAMBDA declared :
            LET values == FlattenTuples(inits.tuples)
            IN  IF IsErr(declared.err)
                THEN Failed(declared.err, declared.ops, declared.stack)
                ELSE IF Len(values) # Len(declared.destinations)
                THEN Failed(ValueCountMismatchErr(Len(values),
                                locationsSpan(statement.initialization),
                                Len(declared.destinations),
                                locationsSpan(statement.variables)),
                        declared.ops, declared.stack)
                ELSE
                Let(compileAssignments(values, declared.destinations, 1,
                        declared.ops, typeScope),
                    LAMBDA assigned :
                    [err |-> assigned.err, ops |-> assigned.ops,
                     stack |-> declared.stack])))

(* No returned value compared with its return type. *)
NoReturnChecked(values, k, typeScope, context) == NoErr

(* The loop of compileReturnSt over the values: the first mismatch. *)
RECURSIVE checkReturned(_, _, _, _)
checkReturned(values, k, typeScope, context) ==
    IF k > Len(values) THEN NoErr
    ELSE
    LET v == values[k]
        destination == context.returnsTo[k]
    IN  IF ~equalTypes(FlatValue(v).t, destination.t)
        THEN TypeMismatchErr(displayType(FlatValue(v).t, typeScope),
                v.tuple.location,
                [index0 |-> v.i - 1, count |-> Len(v.tuple.values)],
                displayType(destination.t, typeScope), destination.location)
        ELSE checkReturned(values, k + 1, typeScope, context)

compileReturnSt(statement, ops, stack, typeScope, context) ==
    Let(compileExpressions(statement.values, 1, <<>>, ops, stack, typeScope,
            context),
        LAMBDA compiled :
        LET values == FlattenTuples(compiled.tuples)
            mismatch == checkReturned(values, 1, typeScope, context)
        IN  IF IsErr(compiled.err)
            THEN Failed(compiled.err, compiled.ops, compiled.stack)
            ELSE IF Len(values) # Len(context.returnsTo)
            THEN Failed(ValueCountMismatchErr(Len(values),
                            locationsSpan(statement.values),
                            Len(context.returnsTo),
                            locationsSpan(context.returnsTo)),
                    compiled.ops, compiled.stack)
            ELSE IF IsErr(mismatch)
            THEN Failed(mismatch, compiled.ops, compiled.stack)
            ELSE Done(Append(compiled.ops,
                        OpReturn(
                            [i \in DOMAIN values |-> FlatValue(values[i]).id],
                            statement.location)),
                    compiled.stack))

RECURSIVE compileIfClause(_, _, _, _, _, _, _, _)
RECURSIVE compileStatement(_, _, _, _, _)
RECURSIVE compileStatements(_, _, _, _, _, _)
RECURSIVE compileBlock(_, _, _, _)

(* The false branch of compileIfClause, between openBlock and closeBlock. *)
compileFalseBranch(rest, restIndex, elseClause, stack, typeScope, context) ==
    IF restIndex > Len(rest)
    THEN IF elseClause # Null
         THEN compileBlock(elseClause.body, stack, typeScope, context)
         ELSE Done(<<>>, stack)
    ELSE compileIfClause(rest[restIndex], rest, restIndex + 1, elseClause,
            <<>>, stack, typeScope, context)

compileIfClause(clause, rest, restIndex, elseClause, ops, stack, typeScope, context) ==
    Let(compileExpression(clause.condition, ops, stack, typeScope,
                        context),
        LAMBDA condition :
        IF IsErr(condition.err)
        THEN Failed(condition.err, condition.ops, condition.stack)
        ELSE IF Len(condition.values) # 1
        THEN Failed(MultiExpressionGroupedErr(clause.condition.location,
                        Len(condition.values), "if", ""),
                condition.ops, condition.stack)
        ELSE IF ~equalTypes(T_BOOLEAN, condition.values[1].t)
        THEN Failed(BooleanTypeExpectedErr(
                        displayType(condition.values[1].t, typeScope),
                        clause.condition.location, "if", ""),
                condition.ops, condition.stack)
        ELSE
        Let(compileBlock(clause.body, condition.stack, typeScope,
                            context),
            LAMBDA trueBranch :
            IF IsErr(trueBranch.err)
            THEN Failed(trueBranch.err, condition.ops, trueBranch.stack)
            ELSE
            Let(compileFalseBranch(rest, restIndex, elseClause,
                                openBlock(trueBranch.stack), typeScope, context),
                LAMBDA falseBranch :
                LET closed == closeBlock(falseBranch.stack)
            IN  IF IsErr(falseBranch.err)
                THEN Failed(falseBranch.err, condition.ops, falseBranch.stack)
                ELSE IF IsErr(closed.err)
                THEN Failed(closed.err, condition.ops, falseBranch.stack)
                ELSE Done(Append(condition.ops,
                            OpBranch(condition.values[1].id, trueBranch.ops,
                                falseBranch.ops)),
                        closed.stack))))

compileIfSt(statement, ops, stack, typeScope, context) ==
    compileIfClause(statement, statement.elseIfClauses, 1,
        statement.elseClause, ops, stack, typeScope, context)

compileStatement(statement, ops, stack, typeScope, context) ==
    IF statement.tag = "var"
    THEN compileVarSt(statement, ops, stack, typeScope, context)
    ELSE IF statement.tag = "return"
    THEN compileReturnSt(statement, ops, stack, typeScope, context)
    ELSE IF statement.tag = "if"
    THEN compileIfSt(statement, ops, stack, typeScope, context)
    ELSE IF statement.tag = "unreachable"
    THEN Done(Append(ops, OpUnreachable("unreachable", statement.location)),
            stack)
    ELSE Failed(PlainError("Unhandled tag in compileStatement"), ops, stack)

(* for (const s of block.statements) compileStatement(s, ops, ..) *)
compileStatements(statements, k, ops, stack, typeScope, context) ==
    IF k > Len(statements)
    THEN Done(ops, stack)
    ELSE Let(compileStatement(statements[k], ops, stack, typeScope,
                    context),
             LAMBDA r :
             IF IsErr(r.err) THEN r
             ELSE compileStatements(statements, k + 1, r.ops, r.stack,
                    typeScope, context))

compileBlock(block, stack, typeScope, context) ==
    Let(compileStatements(block.statements, 1, <<>>, openBlock(stack),
            typeScope, context),
        LAMBDA body :
        LET closed == closeBlock(body.stack)
        IN  IF IsErr(body.err) THEN body
            ELSE IF IsErr(closed.err)
            THEN Failed(closed.err, body.ops, body.stack)
            ELSE Done(body.ops, closed.stack))

---------------------------------------------------------------------------
(* Functions and entities (pass 3). *)

FunctionContext(returnsTo, ensuresReturnExpression, sc, ctx) ==
    [returnsTo |-> returnsTo, ensuresReturnExpression |-> ensuresReturnExpression,
     sourceContext |-> sc, programContext |-> ctx]

(* for (const parameterAST of signatureAST.parameters) { .. } *)
RECURSIVE compileParameters(_, _, _, _, _, _, _)
compileParameters(parameters, k, ts, stack, typeScope, sc, ctx) ==
    IF k > Len(parameters)
    THEN [err |-> NoErr, ts |-> ts, stack |-> stack]
    ELSE
    Let(compileType(parameters[k].t, typeScope, sc, ctx, "check"),
        LAMBDA t :
        LET d == defineVariable(stack, parameters[k].name.name, t.t,
                parameters[k].name.location)
    IN  IF IsErr(t.err) THEN [err |-> t.err, ts |-> ts, stack |-> stack]
        ELSE IF IsErr(d.err) THEN [err |-> d.err, ts |-> ts, stack |-> stack]
        ELSE compileParameters(parameters, k + 1, Append(ts, t.t), d.stack,
                typeScope, sc, ctx))

(* One requires or ensures clause: openBlock, the expression into a fresh *)
(* block, expectOneBooleanForContract, closeBlock.                        *)
compileContract(clause, contract, stack, typeScope, context) ==
    Let(compileExpression(clause.expression, <<>>, openBlock(stack),
            typeScope, context),
        LAMBDA compiled :
        LET asserted == expectOneBooleanForContract(compiled, typeScope,
                            contract)
            closed == closeBlock(compiled.stack)
        IN  IF IsErr(compiled.err)
            THEN [err |-> compiled.err, stack |-> compiled.stack,
                  condition |-> Null]
            ELSE IF IsErr(asserted)
            THEN [err |-> asserted, stack |-> compiled.stack,
                  condition |-> Null]
            ELSE IF IsErr(closed.err)
            THEN [err |-> closed.err, stack |-> compiled.stack,
                  condition |-> Null]
            ELSE [err |-> NoErr, stack |-> closed.stack,
                  condition |-> [block |-> [ops |-> compiled.ops],
                                 result |-> compiled.values[1].id,
                                 location |-> clause.expression.location]])

RECURSIVE compileContracts(_, _, _, _, _, _, _)
compileContracts(clauses, k, contract, conditions, stack, typeScope, context) ==
    IF k > Len(clauses)
    THEN [err |-> NoErr, stack |-> stack, conditions |-> conditions]
    ELSE Let(compileContract(clauses[k], contract, stack, typeScope,
                    context),
             LAMBDA c :
             IF IsErr(c.err)
             THEN [err |-> c.err, stack |-> c.stack, conditions |-> conditions]
             ELSE compileContracts(clauses, k + 1, contract,
                    Append(conditions, c.condition), c.stack, typeScope,
                    context))

(* for (let i = 0; i < signature.return_types.length; i++) defineTemporary *)
RECURSIVE defineReturnExpression(_, _, _, _, _)
defineReturnExpression(returnTypes, returns, k, stack, values) ==
    IF k > Len(returnTypes)
    THEN [err |-> NoErr, stack |-> stack, values |-> values]
    ELSE LET v == defineTemporary(stack, returnTypes[k], returns[k].location)
         IN  IF IsErr(v.err)
             THEN [err |-> v.err, stack |-> stack, values |-> values]
             ELSE defineReturnExpression(returnTypes, returns, k + 1, v.stack,
                    Append(values, Value(v.binding.t, v.binding.id)))

(* The if (signatureAST.ensures.length !== 0) { .. } of the signature. *)
compileEnsures(signatureAST, returnTypes, stack, typeScope, context) ==
    IF Len(signatureAST.ensures) = 0
    THEN [err |-> NoErr, stack |-> stack, conditions |-> <<>>]
    ELSE
    LET defined == defineReturnExpression(returnTypes, signatureAST.returns, 1,
                        openBlock(stack), <<>>)
        ensuresReturnExpression ==
            [location |-> locationsSpan(signatureAST.returns),
             values |-> defined.values]
    IN  IF IsErr(defined.err)
        THEN [err |-> defined.err, stack |-> defined.stack, conditions |-> <<>>]
        ELSE
        Let(compileContracts(signatureAST.ensures, 1, "ensures", <<>>,
                defined.stack, typeScope,
                [context EXCEPT
                    !.ensuresReturnExpression = ensuresReturnExpression]),
            LAMBDA post :
            LET closed == closeBlock(post.stack)
            IN  IF IsErr(post.err) THEN post
                ELSE IF IsErr(closed.err)
                THEN [err |-> closed.err, stack |-> post.stack,
                      conditions |-> <<>>]
                ELSE [err |-> NoErr, stack |-> closed.stack,
                      conditions |-> post.conditions])

FunctionSignature(typeScope, parameters, returnTypes, preconditions, postconditions) ==
    [type_parameters |-> typeScope.typeVariableDebugNames,
     constraint_parameters |->
        [i \in DOMAIN typeScope.constraints |-> typeScope.constraints[i].constraint],
     parameters |-> parameters, return_types |-> returnTypes,
     preconditions |-> preconditions, postconditions |-> postconditions]

SignatureFailed(e) ==
    [err |-> e, signature |-> Null, stack |-> NewVariableStack, context |-> Null]

compileFunctionSignature(signatureAST, typeScope, sc, ctx) ==
    Let(compileParameters(signatureAST.parameters, 1, <<>>, NewVariableStack,
            typeScope, sc, ctx),
        LAMBDA parameters :
        IF IsErr(parameters.err) THEN SignatureFailed(parameters.err)
        ELSE
        Let(compileTypes(signatureAST.returns, 1, <<>>, typeScope, sc, ctx,
                "check"),
            LAMBDA returns :
            LET context == FunctionContext(
                    [i \in DOMAIN returns.ts |->
                        [t |-> returns.ts[i],
                         location |-> signatureAST.returns[i].location]],
                    Null, sc, ctx)
            IN  IF IsErr(returns.err) THEN SignatureFailed(returns.err)
                ELSE
                Let(compileContracts(signatureAST.requires, 1, "requires",
                        <<>>, parameters.stack, typeScope, context),
                    LAMBDA pre :
                    IF IsErr(pre.err) THEN SignatureFailed(pre.err)
                    ELSE
                    Let(compileEnsures(signatureAST, returns.ts, pre.stack,
                            typeScope, context),
                        LAMBDA post :
                        IF IsErr(post.err) THEN SignatureFailed(post.err)
                        ELSE [err |-> NoErr,
                              signature |->
                                FunctionSignature(typeScope, parameters.ts,
                                    returns.ts, pre.conditions,
                                    post.conditions),
                              stack |-> post.stack,
                              context |-> context]))))

(* Only an empty body is taken to exit without returning. *)
OnlyEmptyExitsWithoutReturning(bodyOps) == Len(bodyOps) = 0

(* body.ops.length === 0 || !ir.opTerminates(body.ops[body.ops.length - 1]) *)
MayExitWithoutReturning(bodyOps) ==
    Len(bodyOps) = 0 \/ ~opTerminates(bodyOps[Len(bodyOps)])

(* The body of a function after compileFunction's check of its last op. *)
TerminatedBody(bodyOps, closing) ==
    IF MayExitWithoutReturning(bodyOps)
    THEN Append(bodyOps, OpUnreachable("return", closing))
    ELSE bodyOps

compileFunction(prog, def, fName, sc, typeScope, ctx) ==
    Let(compileFunctionSignature(def.ast.signature, typeScope, sc, ctx),
        LAMBDA sig :
        IF IsErr(sig.err) THEN [err |-> sig.err, program |-> prog]
        ELSE
        Let(compileBlock(def.ast.body, sig.stack, typeScope, sig.context),
            LAMBDA body :
            IF IsErr(body.err) THEN [err |-> body.err, program |-> prog]
            ELSE [err |-> NoErr,
                  program |-> [prog EXCEPT !.functions = ObjPut(@, fName,
                        [signature |-> sig.signature,
                         body |-> [ops |-> TerminatedBody(body.ops,
                                                def.ast.body.closing)]])]]))

TypeParameterNames(entity) ==
    [i \in DOMAIN entity.ast.typeParameters.parameters |->
        entity.ast.typeParameters.parameters[i].name]

RECURSIVE compileSignatures(_, _, _, _, _)
compileSignatures(entity, k, signatures, sc, ctx) ==
    IF k > Len(entity.fns.keys)
    THEN [err |-> NoErr, signatures |-> signatures]
    ELSE
    LET fnName == entity.fns.keys[k]
    IN  Let(compileFunctionSignature(entity.fns.at[fnName].ast.signature,
                    entity.typeScope, sc, ctx),
        LAMBDA sig :
        IF IsErr(sig.err) THEN [err |-> sig.err, signatures |-> signatures]
        ELSE compileSignatures(entity, k + 1,
                ObjPut(signatures, fnName, sig.signature), sc, ctx))

compileInterfaceEntity(prog, entity, entityName, ctx) ==
    Let(compileSignatures(entity, 1, ObjEmpty,
                        ctx.sourceContexts[entity.sourceID], ctx),
        LAMBDA compiled :
        IF IsErr(compiled.err) THEN [err |-> compiled.err, program |-> prog]
        ELSE [err |-> NoErr,
              program |-> [prog EXCEPT !.interfaces = ObjPut(@, entityName,
                    [type_parameters |-> TypeParameterNames(entity),
                     signatures |-> compiled.signatures])]])

(* The storage layout of a record: the field types as collectMembers *)
(* bound them.                                                        *)
RecordLayout(entity) ==
    [type_parameters |-> TypeParameterNames(entity),
     fields |-> [keys |-> entity.fields.keys,
                 at |-> [f \in DOMAIN entity.fields.at |->
                            entity.fields.at[f].t]]]

(* for (const f in entity.fns) compileFunction(..) *)
RECURSIVE compileFunctions(_, _, _, _)
compileFunctions(prog, entity, k, ctx) ==
    IF k > Len(entity.fns.keys)
    THEN [err |-> NoErr, program |-> prog]
    ELSE
    LET def == entity.fns.at[entity.fns.keys[k]]
    IN  Let(compileFunction(prog, def, def.id,
                        ctx.sourceContexts[entity.sourceID], entity.typeScope,
                        ctx),
        LAMBDA compiled :
        IF IsErr(compiled.err) THEN compiled
        ELSE compileFunctions(compiled.program, entity, k + 1, ctx))

(* A compileRecordEntity that writes the record into a new table. *)
compileRecordEntityAlone(prog, entity, entityName, ctx) ==
    compileFunctions(
        [prog EXCEPT
            !.records = ObjPut(ObjEmpty, entityName, RecordLayout(entity))],
        entity, 1, ctx)

compileRecordEntity(prog, entity, entityName, ctx) ==
    compileFunctions(
        [prog EXCEPT !.records = ObjPut(@, entityName, RecordLayout(entity))],
        entity, 1, ctx)

compileEntity(prog, ctx, entityName) ==
    LET entity == ctx.entitiesByCanonical.at[entityName]
    IN  IF entity.tag = "record"
        THEN compileRecordEntity(prog, entity, entityName, ctx)
        ELSE IF entity.tag = "interface"
        THEN compileInterfaceEntity(prog, entity, entityName, ctx)
        ELSE [err |-> PlainError("compileEntity: unhandled tag"),
              program |-> prog]

NewProgram(ctx) ==
    [functions |-> ObjEmpty, interfaces |-> ObjEmpty, records |-> ObjEmpty,
     foreign |-> ctx.foreignSignatures, globalVTableFactories |-> ObjEmpty]

---------------------------------------------------------------------------
(* compileSources as a state machine.  sources is the argument (the      *)
(* parsed sources in the order of their IDs: source i has the ID i); pc  *)
(* is the position in compileSources; idx and imp are the loop indices;  *)
(* sourceContext is the local of resolveSourceContext; programContext    *)
(* and program are the locals of compileSources; result is what was      *)
(* returned and error is what was thrown.                                *)

SourceIDs == DOMAIN sources

Entities == programContext.entitiesByCanonical.keys

Throw(e) == pc' = "failed" /\ error' = e

(* After the loop body of one of the three loops of compileSources: the *)
(* next turn of the loop, or the statement after the loop.              *)
Continue(loop, count, after) ==
    IF idx + 1 > count
    THEN pc' = after /\ idx' = 0
    ELSE pc' = loop /\ idx' = idx + 1

(* const programContext = collectAllEntities(sources); *)
CollectAllEntities ==
    /\ pc = "collectAllEntities"
    /\ Let(collectAllEntities(sources),
           LAMBDA r :
           /\ programContext' = r.ctx
           /\ IF IsErr(r.err)
              THEN Throw(r.err) /\ idx' = idx
              ELSE /\ pc' = "resolveSourceContext"
                   /\ idx' = 1
                   /\ error' = error)
    /\ UNCHANGED <<sources, imp, sourceContext, program, result>>

(* programContext.sourceContexts[sourceID] = sourceContext; and the end *)
(* of the turn of the loop over the sources.                            *)
StoreSourceContext(sc) ==
    /\ programContext' =
            [programContext EXCEPT !.sourceContexts = Put(@, idx, sc)]
    /\ IF idx + 1 > Len(sources)
       THEN IF Len(Entities) = 0
            THEN pc' = "hasCollectedMembers" /\ idx' = 0
            ELSE pc' = "collectMembers" /\ idx' = 1
       ELSE pc' = "resolveSourceContext" /\ idx' = idx + 1

(* resolveSourceContext up to its loop over the imports. *)
ResolveSourceContext ==
    /\ pc = "resolveSourceContext"
    /\ Let(OwnPackageContext(sources[idx], programContext),
           LAMBDA sc :
           /\ sourceContext' = sc
           /\ IF Len(sources[idx].imports) = 0
              THEN StoreSourceContext(sc) /\ imp' = 0
              ELSE /\ pc' = "resolveImport"
                   /\ imp' = 1
                   /\ UNCHANGED <<idx, programContext>>)
    /\ UNCHANGED <<sources, program, result, error>>

(* One turn of the loop of resolveSourceContext over the imports, and *)
(* after the last import the end of resolveSourceContext.             *)
ResolveImport ==
    /\ pc = "resolveImport"
    /\ Let(resolveImport(sources[idx].imports[imp].imported,
                sources[idx].package, sourceContext, programContext),
           LAMBDA r :
           /\ sourceContext' = r.sc
           /\ IF IsErr(r.err)
              THEN Throw(r.err) /\ UNCHANGED <<idx, imp, programContext>>
              ELSE /\ error' = error
                   /\ IF imp = Len(sources[idx].imports)
                      THEN StoreSourceContext(r.sc) /\ imp' = 0
                      ELSE /\ imp' = imp + 1
                           /\ UNCHANGED <<pc, idx, programContext>>)
    /\ UNCHANGED <<sources, program, result>>

(* collectMembers(programContext, canonicalEntityName); *)
CollectMembers ==
    /\ pc = "collectMembers"
    /\ Let(collectMembers(programContext, Entities[idx]),
           LAMBDA r :
           /\ programContext' = r.ctx
           /\ IF IsErr(r.err)
              THEN Throw(r.err) /\ idx' = idx
              ELSE /\ error' = error
                   /\ Continue("collectMembers", Len(Entities),
                        "hasCollectedMembers"))
    /\ UNCHANGED <<sources, imp, sourceContext, program, result>>

(* programContext.hasCollectedMembers = true; const program = {..}; *)
HasCollectedMembers ==
    /\ pc = "hasCollectedMembers"
    /\ programContext' = [programContext EXCEPT !.hasCollectedMembers = TRUE]
    /\ program' = NewProgram(programContext)
    /\ IF Len(Entities) = 0
       THEN pc' = "return" /\ idx' = 0
       ELSE pc' = "compileEntity" /\ idx' = 1
    /\ UNCHANGED <<sources, imp, sourceContext, result, error>>

(* compileEntity(program, programContext, canonicalEntityName); *)
CompileEntity ==
    /\ pc = "compileEntity"
    /\ Let(compileEntity(program, programContext, Entities[idx]),
           LAMBDA r :
           /\ program' = r.program
           /\ IF IsErr(r.err)
              THEN Throw(r.err) /\ idx' = idx
              ELSE /\ error' = error
                   /\ Continue("compileEntity", Len(Entities), "return"))
    /\ UNCHANGED <<sources, imp, sourceContext, programContext, result>>

(* return program; *)
Return ==
    /\ pc = "return"
    /\ result' = program
    /\ pc' = "returned"
    /\ UNCHANGED <<sources, idx, imp, sourceContext, programContext, program,
                   error>>

Next ==
    \/ CollectAllEntities
    \/ ResolveSourceContext
    \/ ResolveImport
    \/ CollectMembers
    \/ HasCollectedMembers
    \/ CompileEntity
    \/ Return

(* The state at the call of compileSources(srcs). *)
Called(srcs) ==
    /\ sources = srcs
    /\ pc = "collectAllEntities"
    /\ idx = 0
    /\ imp = 0
    /\ sourceContext = Null
    /\ programContext = Null
    /\ program = Null
    /\ result = Null
    /\ error = NoErr

---------------------------------------------------------------------------
(* Sources about names: packages, imports and definitions.  Source 1 is *)
(* of package p with up to MaxImports imports and up to MaxDefs empty   *)
(* records; source 2 is of package p or q, without imports.  No source  *)
(* declares package r.                                                   *)

(* <<package, object>> for import package.object; and <<package, "">>  *)
(* for import package;                                                   *)
ImportShapes ==
    {<<"q", "A">>, <<"r", "A">>, <<"p", "">>, <<"q", "">>, <<"r", "">>}

Import(shape, sid, j) ==
    [imported |->
        IF shape[2] = ""
        THEN ImportOfPackage(shape[1], sid, j)
        ELSE ImportOfObject(shape[1], shape[2], sid, j)]

Imports(shapes, sid) == [j \in DOMAIN shapes |-> Import(shapes[j], sid, j)]

EmptyRecords(names, sid) ==
    [d \in DOMAIN names |->
        RecordDefinition(names[d], NoTypeParameters, <<>>, <<>>, sid, d)]

NamesSources(imports, names1, package2, names2) ==
    <<Source(PackageDef("p", 1), Imports(imports, 1), EmptyRecords(names1, 1)),
      Source(PackageDef(package2, 2), <<>>, EmptyRecords(names2, 2))>>

NamesInputs ==
    {NamesSources(imports, names1, package2, names2) :
        imports \in SeqUpTo(ImportShapes, MaxImports),
        names1 \in SeqUpTo({"A", "B"}, MaxDefs),
        package2 \in {"p", "q"},
        names2 \in SeqUpTo({"A"}, MaxDefs)}

InitNames == \E srcs \in NamesInputs : Called(srcs)

SpecNames == InitNames /\ [][Next]_vars

---------------------------------------------------------------------------
(* What the sources say, read off the syntax trees. *)

PackageOf(sid) == sources[sid].package.packageName.name

DefinitionSites ==
    UNION {{<<sid, d>> : d \in DOMAIN sources[sid].definitions} :
            sid \in SourceIDs}

DefinitionAt(site) == sources[site[1]].definitions[site[2]]

(* Site a is met before site b by a walk over the sources in order. *)
Before(a, b) == a[1] < b[1] \/ (a[1] = b[1] /\ a[2] < b[2])

SameEntity(a, b) ==
    /\ PackageOf(a[1]) = PackageOf(b[1])
    /\ DefinitionAt(a).entityName.name = DefinitionAt(b).entityName.name

(* The definitions of a package.Name that an earlier definition has. *)
Redefinitions ==
    {b \in DefinitionSites :
        \E a \in DefinitionSites : Before(a, b) /\ SameEntity(a, b)}

FirstRedefinition ==
    CHOOSE b \in Redefinitions : \A c \in Redefinitions : c = b \/ Before(b, c)

FirstDefinitionOf(b) ==
    CHOOSE a \in DefinitionSites :
        /\ SameEntity(a, b)
        /\ \A c \in DefinitionSites : SameEntity(c, b) => (c = a \/ Before(a, c))

(* The names that the sources of the package of source sid define. *)
LocalNames(sid) ==
    {DefinitionAt(site).entityName.name :
        site \in {x \in DefinitionSites : PackageOf(x[1]) = PackageOf(sid)}}

(* The imports j <= upTo of source sid of the form import package.Name; *)
ObjectImports(sid, upTo) ==
    {j \in DOMAIN sources[sid].imports :
        j <= upTo /\ sources[sid].imports[j].imported.tag = "of-object"}

PackageImports(sid, upTo) ==
    {j \in DOMAIN sources[sid].imports :
        j <= upTo /\ sources[sid].imports[j].imported.tag = "of-package"}

ImportAt(sid, j) == sources[sid].imports[j].imported

(* Some source of package packageName defines entityName. *)
Defines(packageName, entityName) ==
    \E site \in DefinitionSites :
        /\ PackageOf(site[1]) = packageName
        /\ DefinitionAt(site).entityName.name = entityName

Declared(packageName) == \E sid \in SourceIDs : PackageOf(sid) = packageName

---------------------------------------------------------------------------
(* C1: when two definitions of the sources have the same package and    *)
(* name, compileSources fails in pass 1 with EntityRedefined naming     *)
(* package.Name, the first binding being the name token of the          *)
(* definition registered first and the second the name token of the     *)
(* first definition that repeats one; at the failure no source context  *)
(* is resolved, no entity has members and there is no program.          *)
C1_RedefinitionFailsInPassOne ==
    (Redefinitions # {} /\ pc # "collectAllEntities") =>
        /\ pc = "failed"
        /\ error = EntityRedefinedErr(
                PackageOf(FirstRedefinition[1]) \o "." \o
                    DefinitionAt(FirstRedefinition).entityName.name,
                DefinitionAt(FirstDefinitionOf(FirstRedefinition))
                    .entityName.location,
                DefinitionAt(FirstRedefinition).entityName.location)
        /\ programContext.sourceContexts = EmptyMap
        /\ programContext.hasCollectedMembers = FALSE
        /\ \A site \in DefinitionSites :
                LET name == CanonicalName(PackageOf(site[1]),
                                DefinitionAt(site).entityName.name)
                IN  ObjHas(programContext.entitiesByCanonical, name) =>
                        programContext.entitiesByCanonical.at[name] =
                            NewEntity(DefinitionAt(FirstDefinitionOf(site)),
                                FirstDefinitionOf(site)[1])
        /\ sourceContext = Null
        /\ program = Null
        /\ result = Null

(* A run that failed on a redefinition in another source than the first *)
(* definition, after registering some entity.                           *)
C1_Witness ==
    /\ pc = "failed"
    /\ error.kind = "EntityRedefined"
    /\ Redefinitions # {}
    /\ FirstRedefinition[1] # FirstDefinitionOf(FirstRedefinition)[1]
    /\ Len(programContext.entitiesByCanonical.keys) > 1

---------------------------------------------------------------------------
(* The short names that the first upTo imports of source sid bring. *)
ImportedNames(sid, upTo) ==
    {ImportAt(sid, j).objectName.name : j \in ObjectImports(sid, upTo)}

ImportedNamespaces(sid, upTo) ==
    {ImportAt(sid, j).packageName.name : j \in PackageImports(sid, upTo)}

(* sc has exactly the short names of the package of source sid and of   *)
(* its first upTo imports by name, each bound to the canonical name of  *)
(* the entity it names, and exactly the namespaces of its first upTo    *)
(* imports of packages.                                                  *)
ScopeIsLocalAndImported(sc, sid, upTo) ==
    /\ DOMAIN sc.entityAliases = LocalNames(sid) \cup ImportedNames(sid, upTo)
    /\ \A n \in LocalNames(sid) :
            sc.entityAliases[n].canonicalName = PackageOf(sid) \o "." \o n
    /\ \A j \in ObjectImports(sid, upTo) :
            sc.entityAliases[ImportAt(sid, j).objectName.name].canonicalName =
                ImportAt(sid, j).packageName.name \o "." \o
                    ImportAt(sid, j).objectName.name
    /\ DOMAIN sc.namespaces = ImportedNamespaces(sid, upTo)

(* C5: in every SourceContext of pass 2 the bound short names are the   *)
(* entities of the source's own package and the names imported by       *)
(* import pkg.n, each mapped to the canonical name of its entity; an    *)
(* import pkg adds a namespace and no short name.  It holds of the      *)
(* contexts stored and of the one under construction after each import. *)
C5_AliasesAreLocalOrImported ==
    /\ pc # "collectAllEntities" =>
            \A sid \in DOMAIN programContext.sourceContexts :
                ScopeIsLocalAndImported(programContext.sourceContexts[sid],
                    sid, Len(sources[sid].imports))
    /\ pc = "resolveImport" =>
            ScopeIsLocalAndImported(sourceContext, idx, imp - 1)

(* Source 1 was resolved with a short name of its package, a name       *)
(* imported from another package and a namespace.                       *)
C5_Witness ==
    /\ pc = "returned"
    /\ LocalNames(1) # {}
    /\ ImportedNames(1, Len(sources[1].imports)) # {}
    /\ ImportedNamespaces(1, Len(sources[1].imports)) # {}
    /\ 1 \in DOMAIN programContext.sourceContexts

(* The import that resolveImport is about to process. *)
CurrentImport == ImportAt(idx, imp)

(* Every binding of the SourceContext is kept by the step. *)
BindingsKept ==
    /\ \A n \in DOMAIN sourceContext.entityAliases :
            /\ n \in DOMAIN sourceContext'.entityAliases
            /\ sourceContext'.entityAliases[n] = sourceContext.entityAliases[n]
    /\ \A n \in DOMAIN sourceContext.namespaces :
            /\ n \in DOMAIN sourceContext'.namespaces
            /\ sourceContext'.namespaces[n] = sourceContext.namespaces[n]

FailsWith(e) == pc' = "failed" /\ error' = e /\ sourceContext' = sourceContext

NameAlreadyInScope ==
    /\ CurrentImport.tag = "of-object"
    /\ CurrentImport.objectName.name \in DOMAIN sourceContext.entityAliases

EntityRedefinedByImport ==
    EntityRedefinedErr(CurrentImport.objectName.name,
        sourceContext.entityAliases[CurrentImport.objectName.name]
            .bindingLocation,
        CurrentImport.objectName.location)

NamespaceAlreadyInScope ==
    /\ CurrentImport.tag = "of-package"
    /\ \/ CurrentImport.packageName.name = PackageOf(idx)
       \/ CurrentImport.packageName.name \in DOMAIN sourceContext.namespaces

(* When import pkg; fails: NamespaceAlreadyDefined, the first binding   *)
(* being the package declaration of the source or the earlier import.   *)
NamespaceRedefinedByImport ==
    NamespaceAlreadyDefinedErr(CurrentImport.packageName.name,
        IF CurrentImport.packageName.name = PackageOf(idx)
        THEN sources[idx].package.packageName.location
        ELSE sourceContext.namespaces[CurrentImport.packageName.name]
                .bindingLocation,
        CurrentImport.packageName.location)

(* C6 as stated: processing an import keeps every binding; import       *)
(* pkg.Name fails with EntityRedefined whenever Name is in              *)
(* entityAliases; import pkg fails with NamespaceAlreadyDefined when    *)
(* pkg is the own package or a bound namespace; a failing import leaves *)
(* entityAliases and namespaces as they were.                           *)
C6_ImportNeverReplaces ==
    [][pc = "resolveImport" =>
        /\ BindingsKept
        /\ NameAlreadyInScope => FailsWith(EntityRedefinedByImport)
        /\ NamespaceAlreadyInScope => FailsWith(NamespaceRedefinedByImport)
        /\ pc' = "failed" => sourceContext' = sourceContext]_vars

(* C6 amended: import pkg.Name first fails with NoSuchPackage when no   *)
(* source declares pkg and with NoSuchEntity when pkg defines no Name;  *)
(* for a defined pkg.Name it fails with EntityRedefined when Name is in *)
(* entityAliases.  The rest is as stated.                               *)
C6_ImportNeverReplacesDefinedName ==
    [][pc = "resolveImport" =>
        /\ BindingsKept
        /\ (CurrentImport.tag = "of-object"
                /\ ~Declared(CurrentImport.packageName.name)) =>
            FailsWith(NoSuchPackageErr(CurrentImport.packageName.name,
                        CurrentImport.packageName.location))
        /\ (CurrentImport.tag = "of-object"
                /\ Declared(CurrentImport.packageName.name)
                /\ ~Defines(CurrentImport.packageName.name,
                        CurrentImport.objectName.name)) =>
            FailsWith(NoSuchEntityErr(
                        CurrentImport.packageName.name \o "." \o
                            CurrentImport.objectName.name,
                        CurrentImport.location))
        /\ (NameAlreadyInScope
                /\ Defines(CurrentImport.packageName.name,
                        CurrentImport.objectName.name)) =>
            FailsWith(EntityRedefinedByImport)
        /\ NamespaceAlreadyInScope => FailsWith(NamespaceRedefinedByImport)
        /\ pc' = "failed" => sourceContext' = sourceContext]_vars

(* The second import of a source failed because its name was bound by   *)
(* the first import.                                                     *)
C6_Witness ==
    /\ pc = "failed"
    /\ imp = 2
    /\ error.kind = "EntityRedefined"
    /\ ImportAt(idx, 1).tag = "of-object"
    /\ error.firstBinding = ImportAt(idx, 1).objectName.location
    /\ error.secondBinding = ImportAt(idx, 2).objectName.location

---------------------------------------------------------------------------
(* Builders of the syntax trees of members, from short descriptions.     *)

Digits == <<"1", "2", "3", "4", "5", "6", "7", "8", "9">>

(* The description of a type: a keyword, a type variable or a named     *)
(* type with a qualifier ("" for none) and arguments.                   *)
KeywordShape(keyword) == [kind |-> "keyword", name |-> keyword]

VarShape(name) == [kind |-> "var", name |-> name]

NamedShape(qualifier, name, arguments) ==
    [kind |-> "named", qualifier |-> qualifier, name |-> name,
     arguments |-> arguments]

RECURSIVE TypeAST(_, _)
TypeAST(shape, location) ==
    IF shape.kind = "keyword"
    THEN TypeKeywordToken(shape.name, location)
    ELSE IF shape.kind = "var"
    THEN TypeVarToken(shape.name, location)
    ELSE TypeNamed(shape.qualifier, shape.name,
            [i \in DOMAIN shape.arguments |->
                TypeAST(shape.arguments[i], SubLoc(location, "/" \o Digits[i]))],
            location)

Field(name, shape, sid, d, k) ==
    [name |-> IdenToken(name, Loc(sid, d, "field", k, 0)),
     t |-> TypeAST(shape, Loc(sid, d, "field-type", k, 0))]

FnParameter(name, shape, sid, d, k, i) ==
    [name |-> IdenToken(name, Loc(sid, d, "parameter", k, i)),
     t |-> TypeAST(shape, Loc(sid, d, "parameter-type", k, i))]

(* parameters: <<name, shape>> each; returns: shapes *)
FnSignature(name, parameters, returns, sid, d, k) ==
    [proof |-> FALSE,
     name |-> IdenToken(name, Loc(sid, d, "fn", k, 0)),
     parameters |-> [i \in DOMAIN parameters |->
        FnParameter(parameters[i][1], parameters[i][2], sid, d, k, i)],
     returns |-> [i \in DOMAIN returns |->
        TypeAST(returns[i], Loc(sid, d, "return-type", k, i))],
     requires |-> <<>>,
     ensures |-> <<>>]

Fn(signature, body) == [signature |-> signature, body |-> body]

InterfaceMember(signature) == [signature |-> signature]

(* [#name, .. | #subject is constraint, ..]; constraints: <<subject,    *)
(* shape>> each                                                          *)
TypeParameters(names, constraints, sid, d) ==
    [parameters |-> [i \in DOMAIN names |->
        TypeVarToken(names[i], Loc(sid, d, "type-parameter", i, 0))],
     constraints |-> [i \in DOMAIN constraints |->
        [methodSubject |->
            TypeVarToken(constraints[i][1], Loc(sid, d, "subject", i, 0)),
         constraint |->
            TypeAST(constraints[i][2], Loc(sid, d, "constraint-type", i, 0)),
         location |-> Loc(sid, d, "constraint", i, 0)]]]

(* Expressions of one operand. *)
Atom(atom) == Expression(ExpressionOperand(atom, <<>>), <<>>)

Number(value, location) == Atom(NumberLiteral(value, location))

Variable(name, location) == Atom(VarIden(name, location))

Keyword(keyword, location) == Atom(KeywordToken(keyword, location))

(* { return 0; } *)
ReturnZero(sid, d, k) ==
    Block(<<ReturnSt(<<Number(0, Loc(sid, d, "zero", k, 0))>>,
                Loc(sid, d, "return", k, 0))>>,
          Loc(sid, d, "body", k, 0))

---------------------------------------------------------------------------
(* Sources about types.  Source 1, of package p, imports nothing, q or  *)
(* r and defines                                                         *)
(*     interface Good {}                                                 *)
(*     record A[#T | #T is Good] {}                                      *)
(*     record B { fn g(): Int { return 0; } }                            *)
(*     interface I[#U] {}                                                *)
(*     record Main[#Q] or Main[#Q | #Q is ..] { one use of a type }      *)
(* Source 2 is  package q; record T {}.  No source declares package r.   *)

IntShape == KeywordShape("Int")

ArgumentShapes == {IntShape, NamedShape("", "B", <<>>), VarShape("Q")}

NamedBases ==
    {<<"", "A">>, <<"", "B">>, <<"", "Good">>, <<"", "U">>,
     <<"q", "T">>, <<"q", "U">>, <<"r", "T">>}

TypeShapes ==
    {IntShape, KeywordShape("This"), VarShape("Q"), VarShape("Z")}
    \cup {NamedShape(b[1], b[2], arguments) :
            b \in NamedBases,
            arguments \in SeqUpTo(ArgumentShapes, MaxTypeArguments)}

(* <<>> for Main[#Q]; <<<<"Q", shape>>>> for Main[#Q | #Q is shape] *)
MainConstraints ==
    {<<>>} \cup
    {<<<<"Q", NamedShape("", n, arguments)>>>> :
        n \in {"Good", "I"},
        arguments \in SeqUpTo({IntShape}, MaxTypeArguments)}

Places == {"field", "parameter", "return", "variable", "call"}

(* fn f(): Int { var x: shape = 0; return 0; } *)
VariableOfType(shape, sid, d) ==
    Fn(FnSignature("f", <<>>, <<IntShape>>, sid, d, 1),
       Block(<<VarSt(<<VarDecl("x",
                        TypeAST(shape, Loc(sid, d, "var-type", 1, 0)),
                        Loc(sid, d, "var-decl", 1, 0))>>,
                     <<Number(0, Loc(sid, d, "init", 1, 0))>>,
                     Loc(sid, d, "var", 1, 0)),
               ReturnSt(<<Number(0, Loc(sid, d, "zero", 1, 0))>>,
                     Loc(sid, d, "return", 1, 0))>>,
             Loc(sid, d, "body", 1, 0)))

(* fn f(): Int { return shape.g(); } *)
CallOnType(shape, sid, d) ==
    Fn(FnSignature("f", <<>>, <<IntShape>>, sid, d, 1),
       Block(<<ReturnSt(<<Atom(ExpressionCall(
                            TypeAST(shape, Loc(sid, d, "call-type", 1, 0)),
                            "g", <<>>, Loc(sid, d, "call", 1, 0)))>>,
                     Loc(sid, d, "return", 1, 0))>>,
             Loc(sid, d, "body", 1, 0)))

(* fn f(): shape { unreachable; } *)
ReturnOfType(shape, sid, d) ==
    Fn(FnSignature("f", <<>>, <<shape>>, sid, d, 1),
       Block(<<UnreachableSt(Loc(sid, d, "unreachable", 1, 0))>>,
             Loc(sid, d, "body", 1, 0)))

(* fn f(a: shape): Int { return 0; } *)
ParameterOfType(shape, sid, d) ==
    Fn(FnSignature("f", <<<<"a", shape>>>>, <<IntShape>>, sid, d, 1),
       ReturnZero(sid, d, 1))

Main(constraints, place, shape, d) ==
    RecordDefinition("Main",
        TypeParameters(<<"Q">>, constraints, 1, d),
        IF place = "field"
        THEN <<Field("x", shape, 1, d, 1)>> ELSE <<>>,
        IF place = "parameter"
        THEN <<ParameterOfType(shape, 1, d)>>
        ELSE IF place = "return"
        THEN <<ReturnOfType(shape, 1, d)>>
        ELSE IF place = "variable"
        THEN <<VariableOfType(shape, 1, d)>>
        ELSE IF place = "call"
        THEN <<CallOnType(shape, 1, d)>>
        ELSE <<>>,
        1, d)

TypesSources(imports, constraints, place, shape) ==
    <<Source(PackageDef("p", 1), Imports(imports, 1),
        <<InterfaceDefinition("Good", NoTypeParameters, <<>>, 1, 1),
          RecordDefinition("A",
            TypeParameters(<<"T">>,
                <<<<"T", NamedShape("", "Good", <<>>)>>>>, 1, 2),
            <<>>, <<>>, 1, 2),
          RecordDefinition("B", NoTypeParameters, <<>>,
            <<Fn(FnSignature("g", <<>>, <<IntShape>>, 1, 3, 1),
                 ReturnZero(1, 3, 1))>>, 1, 3),
          InterfaceDefinition("I", TypeParameters(<<"U">>, <<>>, 1, 4),
            <<>>, 1, 4),
          Main(constraints, place, shape, 5)>>),
      Source(PackageDef("q", 2), <<>>, EmptyRecords(<<"T">>, 2))>>

TypesInputs ==
    {TypesSources(imports, constraints, place, shape) :
        imports \in {<<>>, <<<<"q", "">>>>, <<<<"r", "">>>>},
        constraints \in MainConstraints,
        place \in Places,
        shape \in TypeShapes}

InitTypes == \E srcs \in TypesInputs : Called(srcs)

SpecTypes == InitTypes /\ [][Next]_vars

---------------------------------------------------------------------------
(* What the sources about types say. *)

Terminal == pc \in {"returned", "failed"}

(* record Main is the last definition of source 1 *)
MainAST == sources[1].definitions[Len(sources[1].definitions)]

MainName == "p.Main"

(* The type that record Main uses, wherever it uses it. *)
UsedType ==
    IF Len(MainAST.fields) > 0 THEN MainAST.fields[1].t
    ELSE IF Len(MainAST.fns[1].signature.parameters) > 0
    THEN MainAST.fns[1].signature.parameters[1].t
    ELSE IF MainAST.fns[1].body.statements[1].tag = "unreachable"
    THEN MainAST.fns[1].signature.returns[1]
    ELSE IF MainAST.fns[1].body.statements[1].tag = "var"
    THEN MainAST.fns[1].body.statements[1].variables[1].t
    ELSE MainAST.fns[1].body.statements[1].values[1].left.atom.t

UsedInField == Len(MainAST.fields) > 0

UsesNamedType == UsedType.tag = "named"

UsedQualifier ==
    IF UsedType.packageQualification = Null THEN ""
    ELSE UsedType.packageQualification.package.name

(* The package that the used name is looked up in. *)
UsedPackage == IF UsedQualifier = "" THEN PackageOf(1) ELSE UsedQualifier

UsedCanonicalName == UsedPackage \o "." \o UsedType.entity.name

(* The definition that the used name refers to, when there is one. *)
UsedDefinitionSites ==
    {site \in DefinitionSites :
        /\ PackageOf(site[1]) = UsedPackage
        /\ DefinitionAt(site).entityName.name = UsedType.entity.name}

UsedDefinition == DefinitionAt(CHOOSE site \in UsedDefinitionSites : TRUE)

QualifierIsNamespace ==
    UsedQualifier \in ImportedNamespaces(1, Len(sources[1].imports))

(* The used name resolves to a record. *)
UsesRecord ==
    /\ UsesNamedType
    /\ UsedQualifier # "" => QualifierIsNamespace
    /\ UsedDefinitionSites # {}
    /\ UsedDefinition.tag = "record-definition"

(* The constraints declared by record Main, as IR constraints. *)
DeclaredByMain ==
    {c.constraint : c \in Range(
        programContext.entitiesByCanonical.at[MainName].typeScope.constraints)}

(* The constraint c of the record of compound type t, with the type      *)
(* arguments of t for the type parameters.                               *)
NeededConstraint(c, t) ==
    [constraint |-> c.constraint.constraint,
     subjects |-> [i \in DOMAIN c.constraint.subjects |->
        typeSubstitute(c.constraint.subjects[i],
            TypeArgumentMapping(t.type_arguments))]]

ConstraintsOfRecord(record) ==
    Range(programContext.entitiesByCanonical.at[record].typeScope.constraints)

(* C3: in check mode A[X] is rejected with TypesDontSatisfyConstraint    *)
(* only when no available declaration matches the substituted            *)
(* constraint: when record Main declares the needed constraint (#Q is    *)
(* Good, for A[#Q]) the type is accepted.                                *)
C3_DeclaredConstraintIsAccepted ==
    (pc = "failed" /\ error.kind = "TypesDontSatisfyConstraint") =>
        \A declared \in DeclaredByMain :
            displayConstraint(declared,
                programContext.entitiesByCanonical.at[MainName].typeScope)
            # error.neededConstraint

(* Every constraint of the record of every compound type within t is    *)
(* among the declared ones, after substitution.                          *)
RECURSIVE ConstraintsHold(_, _)
ConstraintsHold(t, declared) ==
    t.tag = "type-compound" =>
        /\ \A i \in DOMAIN t.type_arguments :
                ConstraintsHold(t.type_arguments[i], declared)
        /\ \A c \in ConstraintsOfRecord(t.record) :
                NeededConstraint(c, t) \in declared

DeclaredBy(entityName) ==
    {c.constraint : c \in Range(
        programContext.entitiesByCanonical.at[entityName].typeScope.constraints)}

(* C4: in a returned program every compound type of a record field and  *)
(* of a function signature satisfies the constraints of its record.      *)
C4_EmittedTypesSatisfyConstraints ==
    pc = "returned" =>
        /\ \A r \in Range(result.records.keys) :
            \A f \in Range(result.records.at[r].fields.keys) :
                ConstraintsHold(result.records.at[r].fields.at[f],
                    DeclaredBy(r))
        /\ \A fn \in Range(result.functions.keys) :
            LET signature == result.functions.at[fn].signature
                declared == Range(signature.constraint_parameters)
            IN  /\ \A i \in DOMAIN signature.parameters :
                    ConstraintsHold(signature.parameters[i], declared)
                /\ \A i \in DOMAIN signature.return_types :
                    ConstraintsHold(signature.return_types[i], declared)

(* C7: resolving the named type that Main uses has exactly the outcomes *)
(* NoSuchPackage (qualifier not a namespace), NoSuchEntity (no such     *)
(* entity in the namespace, also of a package no source declares; or an *)
(* unqualified name not in scope), NonTypeEntityUsedAsType (an          *)
(* interface), and otherwise none of these failures.                    *)
C7_NamedTypeOutcomes ==
    (Terminal /\ UsesNamedType) =>
        IF UsedQualifier # "" /\ ~QualifierIsNamespace
        THEN /\ pc = "failed"
             /\ error = NoSuchPackageErr(UsedQualifier,
                            UsedType.packageQualification.location)
        ELSE IF UsedDefinitionSites = {}
        THEN /\ pc = "failed"
             /\ error = NoSuchEntityErr(
                            IF UsedQualifier = "" THEN UsedType.entity.name
                            ELSE UsedCanonicalName,
                            UsedType.entity.location)
        ELSE IF UsedDefinition.tag = "interface-definition"
        THEN /\ pc = "failed"
             /\ error.kind = "NonTypeEntityUsedAsType"
        ELSE error.kind \notin {"NoSuchPackage", "NoSuchEntity",
                "NonTypeEntityUsedAsType", "TypeError", "Error"}

(* The type arguments given differ in number from the type parameters  *)
(* that the record used declares.                                       *)
UsedArgumentCountDiffers ==
    /\ UsesRecord
    /\ Len(UsedType.arguments) # Len(UsedDefinition.typeParameters.parameters)

(* Likewise for the interface that a constraint of Main names. *)
ConstraintArgumentCountDiffers ==
    \E i \in DOMAIN MainAST.typeParameters.constraints :
        LET c == MainAST.typeParameters.constraints[i].constraint
        IN  \E site \in DefinitionSites :
                /\ PackageOf(site[1]) = PackageOf(1)
                /\ DefinitionAt(site).entityName.name = c.entity.name
                /\ DefinitionAt(site).tag = "interface-definition"
                /\ Len(c.arguments) #
                    Len(DefinitionAt(site).typeParameters.parameters)

(* C8: a record used in a type, or an interface used in a constraint,   *)
(* with a number of type arguments other than the number of its type    *)
(* parameters fails with TypeParameterCountMismatch.                    *)
C8_ArgumentCountIsChecked ==
    (Terminal /\ (UsedArgumentCountDiffers \/ ConstraintArgumentCountDiffers))
        => (pc = "failed" /\ error.kind = "TypeParameterCountMismatch")

---------------------------------------------------------------------------
(* Sources about members.  Source 1, of package p, imports nothing or q *)
(* and defines either a record R with up to MaxFields fields named f or *)
(* g of type Int or U (which is not defined) and up to MaxFns functions *)
(* named f or g, or an interface J with up to MaxFns members named f or *)
(* g.  Source 2 is  package q; record T {}.                              *)

MemberNames == {"f", "g"}

FieldShapes == MemberNames \X {IntShape, NamedShape("", "U", <<>>)}

(* fn name(): Int *)
MemberSignature(name, sid, d, k) ==
    FnSignature(name, <<>>, <<IntShape>>, sid, d, k)

RecordR(fields, fns) ==
    RecordDefinition("R", NoTypeParameters,
        [k \in DOMAIN fields |-> Field(fields[k][1], fields[k][2], 1, 1, k)],
        [k \in DOMAIN fns |->
            Fn(MemberSignature(fns[k], 1, 1, k), ReturnZero(1, 1, k))],
        1, 1)

InterfaceJ(members) ==
    InterfaceDefinition("J", NoTypeParameters,
        [k \in DOMAIN members |->
            InterfaceMember(MemberSignature(members[k], 1, 1, k))],
        1, 1)

MembersSources(imports, definition) ==
    <<Source(PackageDef("p", 1), Imports(imports, 1), <<definition>>),
      Source(PackageDef("q", 2), <<>>, EmptyRecords(<<"T">>, 2))>>

MembersInputs ==
    {MembersSources(imports, RecordR(fields, fns)) :
        imports \in {<<>>, <<<<"q", "">>>>},
        fields \in SeqUpTo(FieldShapes, MaxFields),
        fns \in SeqUpTo(MemberNames, MaxFns)}
    \cup
    {MembersSources(imports, InterfaceJ(members)) :
        imports \in {<<>>, <<<<"q", "">>>>},
        members \in SeqUpTo(MemberNames, MaxFns)}

InitMembers == \E srcs \in MembersInputs : Called(srcs)

SpecMembers == InitMembers /\ [][Next]_vars

(* What the sources about members say. *)

TheDefinition == sources[1].definitions[1]

(* The name tokens of the members in the order collectMembers visits    *)
(* them: the fields and then the functions of a record, the members of  *)
(* an interface.                                                         *)
MemberTokens ==
    IF TheDefinition.tag = "record-definition"
    THEN [k \in DOMAIN TheDefinition.fields |-> TheDefinition.fields[k].name]
         \o [k \in DOMAIN TheDefinition.fns |->
                TheDefinition.fns[k].signature.name]
    ELSE [k \in DOMAIN TheDefinition.members |->
                TheDefinition.members[k].signature.name]

(* The members with the name of an earlier member. *)
SecondOccurrences ==
    {k \in DOMAIN MemberTokens :
        \E j \in 1..(k - 1) : MemberTokens[j].name = MemberTokens[k].name}

FirstSecondOccurrence ==
    CHOOSE k \in SecondOccurrences : \A j \in SecondOccurrences : k <= j

FirstOccurrenceOf(k) ==
    CHOOSE j \in 1..(k - 1) :
        /\ MemberTokens[j].name = MemberTokens[k].name
        /\ \A i \in 1..(j - 1) : MemberTokens[i].name # MemberTokens[k].name

(* The fields whose type names an entity that is not defined. *)
UndefinedFieldTypes ==
    IF TheDefinition.tag = "record-definition"
    THEN {k \in DOMAIN TheDefinition.fields :
            /\ TheDefinition.fields[k].t.tag = "named"
            /\ ~Defines(PackageOf(1), TheDefinition.fields[k].t.entity.name)}
    ELSE {}

FieldsAndFnsDisjoint ==
    programContext # Null =>
        \A e \in Range(programContext.entitiesByCanonical.keys) :
            LET entity == programContext.entitiesByCanonical.at[e]
            IN  (entity.tag = "record" /\ pc \notin {"collectMembers", "failed"})
                    => Range(entity.fields.keys) \cap Range(entity.fns.keys) = {}

---------------------------------------------------------------------------
(* Sources about function bodies.  Source 1, of package p, imports      *)
(* nothing or q and defines                                              *)
(*     record A { var f: Int; fn g(a: A): Int { statements } }           *)
(* with up to MaxStmts statements.  Source 2 is  package q; record T {}. *)

StatementKinds ==
    {"return 0;", "return a.f;", "return new;", "return 1, 1;",
     "return A.g(a);", "return 1 + 2;", "return true;",
     "var x: Int = 1;", "var y: Int = A.g(a);",
     "if true { return 0; }", "if true { return 0; } else { return 1; }",
     "if 1 { }", "unreachable;"}

BodyLoc(kind, k) == Loc(1, 1, kind, k, 0)

ReturnOf(values, k) == ReturnSt(values, BodyLoc("return", k))

ReturnNumber(value, k, i) ==
    ReturnSt(<<Number(value, Loc(1, 1, "number", k, i))>>,
        Loc(1, 1, "return", k, i))

(* A.g(a) *)
CallG(k) ==
    Atom(ExpressionCall(
        TypeAST(NamedShape("", "A", <<>>), BodyLoc("call-type", k)), "g",
        <<Variable("a", BodyLoc("argument", k))>>, BodyLoc("call", k)))

VarOf(name, value, k) ==
    VarSt(<<VarDecl(name, TypeAST(IntShape, BodyLoc("var-type", k)),
                BodyLoc("var-decl", k))>>,
          <<value>>, BodyLoc("var", k))

IfOf(condition, statements, elseClause, k) ==
    IfSt(condition, Block(statements, BodyLoc("then", k)), <<>>, elseClause,
        BodyLoc("if", k))

(* The k-th statement of the body. *)
Statement(kind, k) ==
    IF kind = "return 0;" THEN ReturnNumber(0, k, 0)
    ELSE IF kind = "return a.f;"
    THEN ReturnOf(<<Expression(
            ExpressionOperand(VarIden("a", BodyLoc("a", k)),
                <<AccessField("f", BodyLoc("access", k))>>), <<>>)>>, k)
    ELSE IF kind = "return new;"
    THEN ReturnOf(<<Atom(ExpressionNew(BodyLoc("new", k)))>>, k)
    ELSE IF kind = "return 1, 1;"
    THEN ReturnOf(<<Number(1, Loc(1, 1, "number", k, 1)),
                    Number(1, Loc(1, 1, "number", k, 2))>>, k)
    ELSE IF kind = "return A.g(a);" THEN ReturnOf(<<CallG(k)>>, k)
    ELSE IF kind = "return 1 + 2;"
    THEN ReturnOf(<<Expression(
            ExpressionOperand(NumberLiteral(1, Loc(1, 1, "number", k, 1)), <<>>),
            <<ExpressionOperation(OperatorToken("+", BodyLoc("operator", k)),
                ExpressionOperand(NumberLiteral(2, Loc(1, 1, "number", k, 2)),
                    <<>>))>>)>>, k)
    ELSE IF kind = "return true;"
    THEN ReturnOf(<<Keyword("true", BodyLoc("true", k))>>, k)
    ELSE IF kind = "var x: Int = 1;"
    THEN VarOf("x", Number(1, Loc(1, 1, "number", k, 0)), k)
    ELSE IF kind = "var y: Int = A.g(a);"
    THEN VarOf("y", CallG(k), k)
    ELSE IF kind = "if true { return 0; }"
    THEN IfOf(Keyword("true", BodyLoc("condition", k)),
            <<ReturnNumber(0, k, 1)>>, Null, k)
    ELSE IF kind = "if true { return 0; } else { return 1; }"
    THEN IfOf(Keyword("true", BodyLoc("condition", k)),
            <<ReturnNumber(0, k, 1)>>,
            [body |-> Block(<<ReturnNumber(1, k, 2)>>, BodyLoc("else", k))], k)
    ELSE IF kind = "if 1 { }"
    THEN IfOf(Number(1, BodyLoc("condition", k)), <<>>, Null, k)
    ELSE UnreachableSt(BodyLoc("unreachable", k))

RecordWithBody(kinds) ==
    RecordDefinition("A", NoTypeParameters,
        <<Field("f", IntShape, 1, 1, 1)>>,
        <<Fn(FnSignature("g", <<<<"a", NamedShape("", "A", <<>>)>>>>,
                <<IntShape>>, 1, 1, 1),
             Block([k \in DOMAIN kinds |-> Statement(kinds[k], k)],
                Loc(1, 1, "body", 0, 0)))>>,
        1, 1)

BodiesInputs ==
    {MembersSources(imports, RecordWithBody(kinds)) :
        imports \in {<<>>, <<<<"q", "">>>>},
        kinds \in SeqUpTo(StatementKinds, MaxStmts)}

InitBodies == \E srcs \in BodiesInputs : Called(srcs)

SpecBodies == InitBodies /\ [][Next]_vars

(* C2: compileSources either returns an IR program or fails with one    *)
(* SemanticError and returns nothing; it fails with no other fault.     *)
C2_ReturnsOrFailsWithSemanticError ==
    Terminal =>
        \/ pc = "returned" /\ result # Null /\ error = NoErr
        \/ pc = "failed" /\ result = Null /\ error.kind # "none" /\ error.sem

(* What compileFunction is given for function g of record A, and the    *)
(* body as compileBlock leaves it.                                       *)
FunctionG == programContext.entitiesByCanonical.at["p.A"].fns.at["g"]

SignatureOfG ==
    compileFunctionSignature(FunctionG.ast.signature,
        programContext.entitiesByCanonical.at["p.A"].typeScope,
        programContext.sourceContexts[1], programContext)

CompiledBodyOfG ==
    compileBlock(FunctionG.ast.body, SignatureOfG.stack,
        programContext.entitiesByCanonical.at["p.A"].typeScope,
        SignatureOfG.context).ops

EmittedBodyOfG == result.functions.at["p.A.g"].body.ops

ExitsWithoutReturning(ops) ==
    \/ Len(ops) = 0
    \/ ops[Len(ops)].tag \notin {"op-return", "op-unreachable"}

(* C10: the body of every record function of a returned program is not  *)
(* empty and ends with op-return or op-unreachable: one op-unreachable  *)
(* of kind "return" at the closing of the body is appended when the     *)
(* compiled body is empty or does not end so, and nothing otherwise.    *)
C10_BodiesEndByTerminating ==
    pc = "returned" =>
        /\ \A fn \in Range(result.functions.keys) :
            LET ops == result.functions.at[fn].body.ops
            IN  /\ Len(ops) > 0
                /\ ops[Len(ops)].tag \in {"op-return", "op-unreachable"}
        /\ EmittedBodyOfG =
            IF ExitsWithoutReturning(CompiledBodyOfG)
            THEN Append(CompiledBodyOfG,
                    [tag |-> "op-unreachable", diagnostic_kind |-> "return",
                     diagnostic_location |-> FunctionG.ast.body.closing])
            ELSE CompiledBodyOfG

(* A program was returned for a body whose last statement does not      *)
(* return: the op-unreachable follows the ops of the statement.         *)
C10_Witness ==
    /\ pc = "returned"
    /\ Len(EmittedBodyOfG) > 1
    /\ EmittedBodyOfG[Len(EmittedBodyOfG)]
        = OpUnreachable("return", FunctionG.ast.body.closing)
    /\ EmittedBodyOfG[Len(EmittedBodyOfG) - 1].tag
        \notin {"op-return", "op-unreachable"}

---------------------------------------------------------------------------
(* Operator chains: applyOrderOfOperations is called with up to         *)
(* MaxOperators operators between the operands a, b, c, ...; sources    *)
(* holds the two arguments, result the tree returned, error the error   *)
(* thrown.                                                               *)

MaxOperators == 3

OperatorStrings ==
    {"implies", "and", "or", "==", "<", ">", "<=", ">=", "!=", "+", "-"}

OperandNames == <<"a", "b", "c", "d", "e", "f">>

ChainOperator(opStr, i) ==
    IF opStr \in {"implies", "and", "or"}
    THEN KeywordToken(opStr, Loc(1, 1, "operator", i, 0))
    ELSE OperatorToken(opStr, Loc(1, 1, "operator", i, 0))

ChainOperand(i) ==
    ExpressionOperand(VarIden(OperandNames[i], Loc(1, 1, "operand", i, 0)),
        <<>>)

Chain(opStrs) ==
    [operators |-> [i \in DOMAIN opStrs |-> ChainOperator(opStrs[i], i)],
     operands |-> [i \in 1..(Len(opStrs) + 1) |-> ChainOperand(i)]]

OperatorsInputs ==
    {Chain(opStrs) :
        opStrs \in UNION {[1..n -> OperatorStrings] : n \in 0..MaxOperators}}

InitOperators ==
    /\ sources \in OperatorsInputs
    /\ pc = "applyOrderOfOperations"
    /\ idx = 0
    /\ imp = 0
    /\ sourceContext = Null
    /\ programContext = Null
    /\ program = Null
    /\ result = Null
    /\ error = NoErr

ApplyOrderOfOperations ==
    /\ pc = "applyOrderOfOperations"
    /\ Let(applyOrderOfOperations(sources.operators, sources.operands),
           LAMBDA r :
            /\ error' = r.err
            /\ result' = IF IsErr(r.err) THEN Null ELSE r.tree
            /\ pc' = IF IsErr(r.err) THEN "failed" ELSE "returned")
    /\ UNCHANGED <<sources, idx, imp, sourceContext, programContext, program>>

NextOperators == ApplyOrderOfOperations

SpecOperators == InitOperators /\ [][NextOperators]_vars

(* Readers of a chain and of the tree built from it. *)
ChainStrings == [i \in DOMAIN sources.operators |-> OpStr(sources.operators[i])]

ChainOf(opStr) ==
    /\ Len(sources.operators) >= 2
    /\ \A i \in DOMAIN sources.operators : ChainStrings[i] = opStr

RECURSIVE LeftNested(_)
LeftNested(tree) ==
    \/ tree.tag = "leaf"
    \/ /\ tree.rightBranch.tag = "leaf"
       /\ LeftNested(tree.leftBranch)

RECURSIVE RightNested(_)
RightNested(tree) ==
    \/ tree.tag = "leaf"
    \/ /\ tree.leftBranch.tag = "leaf"
       /\ RightNested(tree.rightBranch)

(* C11: a chain of one operator is nested to the left when the operator *)
(* is left-associative (and, or, <, >) and to the right when it is      *)
(* implies.                                                              *)
C11_ChainsNestByAssociativity ==
    pc \in {"returned", "failed"} =>
        /\ \A opStr \in {"and", "or", "<", ">"} :
            ChainOf(opStr) => pc = "returned" /\ LeftNested(result)
        /\ ChainOf("implies") => pc = "returned" /\ RightNested(result)

(* The tables of operatorPrecedence as the specification words them. *)
PrecedenceLevel(opStr) ==
    CASE opStr \in {"implies", "and", "or"} -> "logical"
      [] opStr \in {"==", "<", ">", "<=", ">=", "!="} -> "comparison"
      [] OTHER -> "arithmetic"

AssociationGroup(opStr) ==
    CASE opStr = "<=" -> "<"
      [] opStr = ">=" -> ">"
      [] OTHER -> opStr

NonAssociative(opStr) == opStr \notin {"implies", "and", "or", "<", ">"}

(* The reason a join of parentStr over a subtree rooted at childStr     *)
(* requires parentheses, or "none".                                     *)
ParenthesesReason(childStr, parentStr) ==
    IF PrecedenceLevel(childStr) # PrecedenceLevel(parentStr) THEN "none"
    ELSE IF AssociationGroup(childStr) # AssociationGroup(parentStr)
    THEN "unordered"
    ELSE IF NonAssociative(parentStr) THEN "non-associative"
    ELSE "none"

RECURSIVE NoJoinRequiresParentheses(_)
NoJoinRequiresParentheses(tree) ==
    \/ tree.tag = "leaf"
    \/ /\ \A child \in {tree.leftBranch, tree.rightBranch} :
            /\ child.tag = "branch" =>
                ParenthesesReason(OpStr(child.join.opToken),
                                  OpStr(tree.join.opToken)) = "none"
            /\ NoJoinRequiresParentheses(child)

(* The operands and operators of a tree from left to right. *)
RECURSIVE TreeOperands(_)
TreeOperands(tree) ==
    IF tree.tag = "leaf" THEN <<tree.operand>>
    ELSE TreeOperands(tree.leftBranch) \o TreeOperands(tree.rightBranch)

RECURSIVE TreeOperators(_)
TreeOperators(tree) ==
    IF tree.tag = "leaf" THEN <<>>
    ELSE TreeOperators(tree.leftBranch) \o <<tree.join.opToken>>
            \o TreeOperators(tree.rightBranch)

(* Operator opStr binds tighter than operator otherStr. *)
BindsTighter(opStr, otherStr) ==
    \/ PrecedenceLevel(otherStr) = "logical"
        /\ PrecedenceLevel(opStr) # "logical"
    \/ PrecedenceLevel(otherStr) = "comparison"
        /\ PrecedenceLevel(opStr) = "arithmetic"

(* Operators i < j meet: every operator between them binds tighter than *)
(* both, so one of them is joined over the subtree of the other.        *)
OperatorsMeet(i, j) ==
    /\ i < j
    /\ PrecedenceLevel(ChainStrings[i]) = PrecedenceLevel(ChainStrings[j])
    /\ \A k \in (i + 1)..(j - 1) :
        BindsTighter(ChainStrings[k], ChainStrings[i])

ChainRequiresParentheses ==
    \E i, j \in DOMAIN sources.operators :
        /\ OperatorsMeet(i, j)
        /\ \/ ParenthesesReason(ChainStrings[i], ChainStrings[j]) # "none"
           \/ ParenthesesReason(ChainStrings[j], ChainStrings[i]) # "none"

(* C12: applyOrderOfOperations fails with OperationRequiresParenthe-    *)
(* sization exactly when a join is made over a subtree whose root has   *)
(* the same precedence and either another association group (reason     *)
(* "unordered") or the same group while the join is non-associative     *)
(* (reason "non-associative"); otherwise it returns the tree of all the *)
(* operands, in which no join of another precedence is refused.         *)
C12_ParenthesesRequiredExactlyOnConflict ==
    /\ pc = "failed" =>
        /\ error.kind = "OperationRequiresParenthesization"
        /\ \E i, j \in DOMAIN sources.operators :
            /\ i # j
            /\ error.op1 = [str |-> ChainStrings[i],
                            location |-> sources.operators[i].location]
            /\ error.op2 = [str |-> ChainStrings[j],
                            location |-> sources.operators[j].location]
            /\ error.reason \in {"unordered", "non-associative"}
            /\ error.reason = ParenthesesReason(ChainStrings[i], ChainStrings[j])
            /\ \A k \in DOMAIN sources.operators :
                (i < k /\ k < j) \/ (j < k /\ k < i) =>
                    ~BindsTighter(ChainStrings[i], ChainStrings[k])
        /\ ChainRequiresParentheses
    /\ pc = "returned" =>
        /\ error = NoErr
        /\ NoJoinRequiresParentheses(result)
        /\ TreeOperands(result) = sources.operands
        /\ TreeOperators(result) = sources.operators
        /\ ~ChainRequiresParentheses

(* a < b <= c was refused as non-associative, and a and b or c as       *)
(* unordered.                                                            *)
C12_Witness ==
    /\ pc = "failed"
    /\ Len(sources.operators) = 2
    /\ \/ ChainStrings = <<"<", "<=">> /\ error.reason = "non-associative"
       \/ ChainStrings = <<"and", "or">> /\ error.reason = "unordered"

---------------------------------------------------------------------------
(* Sources about contracts.  Source 1 is                                *)
(*     package p; import q;                                             *)
(*     record A { fn f(parameters): returns requires .. ensures ..      *)
(*                { one statement } }                                    *)
(* with up to MaxReturns return types Int or Boolean and up to          *)
(* MaxClauses clauses of each kind, every clause one keyword.           *)

MaxReturns == 2

MaxClauses == 1

BooleanShape == KeywordShape("Boolean")

ClauseKeywords == {"return", "true"}

ContractBodies == {"return return;", "return true;", "unreachable;"}

(* requires keyword / ensures keyword: the i-th clause of its kind *)
Clause(keyword, kind, i) ==
    [expression |-> Keyword(keyword, Loc(1, 1, kind, i, 0))]

ContractStatement(kind) ==
    IF kind = "return return;"
    THEN ReturnOf(<<Keyword("return", BodyLoc("return-keyword", 1))>>, 1)
    ELSE Statement(kind, 1)

RecordWithContracts(parameters, returns, requires, ensures, body) ==
    RecordDefinition("A", NoTypeParameters, <<>>,
        <<Fn([FnSignature("f", parameters, returns, 1, 1, 1) EXCEPT
                !.requires = [i \in DOMAIN requires |->
                                Clause(requires[i], "requires", i)],
                !.ensures = [i \in DOMAIN ensures |->
                                Clause(ensures[i], "ensures", i)]],
             Block(<<ContractStatement(body)>>, Loc(1, 1, "body", 0, 0)))>>,
        1, 1)

ContractsInputs ==
    {MembersSources(<<<<"q", "">>>>,
        RecordWithContracts(parameters, returns, requires, ensures, body)) :
        parameters \in {<<>>, <<<<"b", BooleanShape>>>>},
        returns \in SeqUpTo({IntShape, BooleanShape}, MaxReturns) \ {<<>>},
        requires \in SeqUpTo(ClauseKeywords, MaxClauses),
        ensures \in SeqUpTo(ClauseKeywords, MaxClauses),
        body \in ContractBodies}

InitContracts == \E srcs \in ContractsInputs : Called(srcs)

SpecContracts == InitContracts /\ [][Next]_vars

(* What the source about contracts says. *)
SignatureOfF == TheDefinition.fns[1].signature

BodyOfF == TheDefinition.fns[1].body.statements

ReturnClauses(clauses) ==
    {i \in DOMAIN clauses : clauses[i].expression.left.atom.keyword = "return"}

FirstReturnClause(clauses) ==
    CHOOSE i \in ReturnClauses(clauses) :
        \A j \in ReturnClauses(clauses) : i <= j

BodyUsesReturnExpression ==
    /\ BodyOfF[1].tag = "return"
    /\ BodyOfF[1].values[1].left.atom.tag = "keyword"
    /\ BodyOfF[1].values[1].left.atom.keyword = "return"

(* The return tuple is one Boolean: an ensures clause may assert it. *)
ReturnsOneBoolean ==
    /\ Len(SignatureOfF.returns) = 1
    /\ SignatureOfF.returns[1].keyword = "Boolean"

(* C13: a return expression is accepted only in an ensures clause,      *)
(* where it is the tuple of one temporary per return type, declared     *)
(* after the parameters; in a requires clause and in a body, also of a  *)
(* function with ensures clauses, compilation fails with                *)
(* ReturnExpressionUsedOutsideEnsures at the keyword.                   *)
C13_ReturnExpressionOnlyInEnsures ==
    Terminal =>
        IF ReturnClauses(SignatureOfF.requires) # {}
        THEN /\ pc = "failed"
             /\ error = [kind |-> "ReturnExpressionUsedOutsideEnsures",
                    sem |-> TRUE,
                    returnLocation |->
                        SignatureOfF.requires[
                            FirstReturnClause(SignatureOfF.requires)
                        ].expression.location]
        ELSE IF ReturnClauses(SignatureOfF.ensures) # {}
                /\ ~ReturnsOneBoolean
        THEN /\ pc = "failed"
             /\ IF Len(SignatureOfF.returns) # 1
                THEN /\ error.kind = "MultiExpressionGrouped"
                     /\ error.valueCount = Len(SignatureOfF.returns)
                ELSE /\ error.kind = "BooleanTypeExpected"
                     /\ error.givenType = "Int"
        ELSE IF BodyUsesReturnExpression
        THEN /\ pc = "failed"
             /\ error = [kind |-> "ReturnExpressionUsedOutsideEnsures",
                    sem |-> TRUE,
                    returnLocation |-> BodyOfF[1].values[1].location]
        ELSE /\ error.kind # "ReturnExpressionUsedOutsideEnsures"
             /\ pc = "returned" =>
                \A i \in ReturnClauses(SignatureOfF.ensures) :
                    LET post == result.functions.at["p.A.f"]
                                    .signature.postconditions[i]
                    IN  /\ post.block.ops = <<>>
                        /\ post.result = Len(SignatureOfF.parameters)
                        /\ post.location
                            = SignatureOfF.ensures[i].expression.location

(* fn f(b: Boolean): Boolean ensures return { return true; } was        *)
(* compiled, and fn f(): Boolean ensures return { return return; } was  *)
(* refused for its body.                                                *)
C13_Witness ==
    /\ Terminal
    /\ ReturnClauses(SignatureOfF.ensures) # {}
    /\ ReturnClauses(SignatureOfF.requires) = {}
    /\ ReturnsOneBoolean
    /\ \/ pc = "returned" /\ Len(SignatureOfF.parameters) = 1
       \/ BodyUsesReturnExpression
            /\ error.kind = "ReturnExpressionUsedOutsideEnsures"

---------------------------------------------------------------------------
(* Sources about statements.  Source 1 is                               *)
(*     package p; import q;                                             *)
(*     record A { fn g(n: Int, b: Boolean, r: R[Int]): returns          *)
(*                { one statement } }                                    *)
(*     record R[#T] { var f: Int; var h: #T;                            *)
(*                    fn id(x: #T, n: Int): #T, Int { unreachable; }    *)
(*                    fn two(): Int, Boolean { unreachable; } }         *)
(* The statement returns, or declares variables for, up to MaxValues    *)
(* expressions.                                                          *)

MaxValues == 2

ValueKinds == {"1", "true", "R[Int].two()"}

(* zz is a variable that is not defined *)
ArgumentKinds == ValueKinds \cup {"zz"}

MaxArguments == 2

CallBases == {IntShape, NamedShape("", "R", <<IntShape>>),
              NamedShape("", "R", <<BooleanShape>>)}

CallMethods == {"id", "two", "nope"}

TypeKeywords == {IntShape, BooleanShape}

VariableNames == <<"x", "y", "z", "w">>

RecordOf(arguments) == NamedShape("", "R", arguments)

(* base.methodName(arguments) as the i-th value of the statement *)
CallAt(base, methodName, arguments, kind, i) ==
    Atom(ExpressionCall(TypeAST(base, Loc(1, 1, kind \o "-type", i, 0)),
            methodName, arguments, Loc(1, 1, kind, i, 0)))

CallOf(base, methodName, arguments, i) ==
    CallAt(base, methodName, arguments, "value", i)

ValueExpression(kind, i) ==
    IF kind = "1" THEN Number(1, Loc(1, 1, "value", i, 0))
    ELSE IF kind = "true" THEN Keyword("true", Loc(1, 1, "value", i, 0))
    ELSE CallOf(RecordOf(<<IntShape>>), "two", <<>>, i)

ValueExpressions(kinds) ==
    [i \in DOMAIN kinds |-> ValueExpression(kinds[i], i)]

ReturnValues(values) == ReturnSt(values, Loc(1, 1, "statement", 1, 0))

(* var x: t1, y: t2 = values; *)
VarValues(types, values) ==
    VarSt([i \in DOMAIN types |->
                VarDecl(VariableNames[i],
                    TypeAST(types[i], Loc(1, 1, "var-type", i, 0)),
                    Loc(1, 1, "var-decl", i, 0))],
          values, Loc(1, 1, "statement", 1, 0))

UnreachableBody(d, k) ==
    Block(<<UnreachableSt(Loc(1, d, "unreachable", k, 0))>>,
        Loc(1, d, "body", k, 0))

RecordCallee ==
    RecordDefinition("R", TypeParameters(<<"T">>, <<>>, 1, 2),
        <<Field("f", IntShape, 1, 2, 1), Field("h", VarShape("T"), 1, 2, 2)>>,
        <<Fn(FnSignature("id", <<<<"x", VarShape("T")>>, <<"n", IntShape>>>>,
                <<VarShape("T"), IntShape>>, 1, 2, 1),
             UnreachableBody(2, 1)),
          Fn(FnSignature("two", <<>>, <<IntShape, BooleanShape>>, 1, 2, 2),
             UnreachableBody(2, 2))>>,
        1, 2)

RecordWithStatement(returns, statement) ==
    RecordDefinition("A", NoTypeParameters, <<>>,
        <<Fn(FnSignature("g",
                <<<<"n", IntShape>>, <<"b", BooleanShape>>,
                  <<"r", RecordOf(<<IntShape>>)>>>>,
                returns, 1, 1, 1),
             Block(<<statement>>, Loc(1, 1, "body", 0, 0)))>>,
        1, 1)

StatementSources(returns, statement) ==
    <<Source(PackageDef("p", 1), Imports(<<<<"q", "">>>>, 1),
        <<RecordWithStatement(returns, statement), RecordCallee>>),
      Source(PackageDef("q", 2), <<>>, EmptyRecords(<<"T">>, 2))>>

ReturnInputs ==
    {StatementSources(returns, ReturnValues(ValueExpressions(kinds))) :
        returns \in SeqUpTo(TypeKeywords, MaxReturns) \ {<<>>},
        kinds \in SeqUpTo(ValueKinds, MaxValues) \ {<<>>}}

VarInputs ==
    {StatementSources(<<IntShape>>,
        VarValues(types, ValueExpressions(kinds))) :
        types \in SeqUpTo(TypeKeywords, MaxValues) \ {<<>>},
        kinds \in SeqUpTo(ValueKinds, MaxValues) \ {<<>>}}

(* base.methodName(arguments) as an argument is R[Int].two() *)
ArgumentExpression(kind, j) ==
    IF kind = "1" THEN Number(1, Loc(1, 1, "argument", j, 0))
    ELSE IF kind = "true" THEN Keyword("true", Loc(1, 1, "argument", j, 0))
    ELSE IF kind = "zz" THEN Variable("zz", Loc(1, 1, "argument", j, 0))
    ELSE CallAt(RecordOf(<<IntShape>>), "two", <<>>, "argument", j)

(* The return types of R[X].id and of R[X].two *)
CallReturns(base, methodName) ==
    IF methodName = "two" \/ base.kind = "keyword"
    THEN <<IntShape, BooleanShape>>
    ELSE <<base.arguments[1], IntShape>>

(* fn g(..): the return types of the callee { return the call; } *)
CallInputs ==
    {StatementSources(CallReturns(base, methodName),
        ReturnValues(<<CallOf(base, methodName,
            [j \in DOMAIN kinds |-> ArgumentExpression(kinds[j], j)], 1)>>)) :
        base \in CallBases, methodName \in CallMethods,
        kinds \in SeqUpTo(ArgumentKinds, MaxArguments)}

AccessBases == {"n", "r", "1", "R[Int].two()"}

AccessKinds == {".f", ".h", ".m()"}

AccessBase(kind) ==
    IF kind = "n" \/ kind = "r" THEN VarIden(kind, Loc(1, 1, "value", 1, 0))
    ELSE ValueExpression(kind, 1).left.atom

AccessOf(kind) ==
    IF kind = ".m()"
    THEN AccessMethod("m", <<>>, Loc(1, 1, "access", 1, 0))
    ELSE AccessField(IF kind = ".f" THEN "f" ELSE "h",
            Loc(1, 1, "access", 1, 0))

(* fn g(..): Int or Boolean { return base.f; } and the like *)
AccessInputs ==
    {StatementSources(<<t>>,
        ReturnValues(<<Expression(
            ExpressionOperand(AccessBase(base), <<AccessOf(access)>>),
            <<>>)>>)) :
        t \in TypeKeywords, base \in AccessBases, access \in AccessKinds}

BinaryOperators == {"==", "<", ">", "<=", ">=", "!=", "+", "-"}

(* fn g(..): Int or Boolean { return left operator right; } *)
OperationInputs ==
    {StatementSources(<<t>>,
        ReturnValues(<<Expression(ValueExpression(left, 1).left,
            <<ExpressionOperation(
                OperatorToken(operator, Loc(1, 1, "operator", 1, 0)),
                ValueExpression(right, 2).left)>>)>>)) :
        t \in TypeKeywords, left \in ValueKinds,
        operator \in BinaryOperators, right \in ValueKinds}

StatementsInputs ==
    ReturnInputs \cup VarInputs \cup CallInputs \cup AccessInputs
        \cup OperationInputs

InitStatements == \E srcs \in StatementsInputs : Called(srcs)

SpecStatements == InitStatements /\ [][Next]_vars

(* What the source about statements says. *)
SignatureOfTheFn == TheDefinition.fns[1].signature

TheStatement == TheDefinition.fns[1].body.statements[1]

(* The types of the values of an expression, as written. *)
IsLiteral(e) ==
    /\ Len(e.operations) = 0
    /\ Len(e.left.accesses) = 0
    /\ \/ e.left.atom.tag = "number-literal"
       \/ e.left.atom.tag = "keyword" /\ e.left.atom.keyword = "true"

IsCallOfTwo(e) ==
    /\ Len(e.operations) = 0
    /\ Len(e.left.accesses) = 0
    /\ e.left.atom.tag = "call"
    /\ e.left.atom.methodName.name = "two"
    /\ e.left.atom.t.tag = "named"
    /\ Len(e.left.atom.arguments) = 0

WrittenTypes(e) ==
    IF e.left.atom.tag = "number-literal" THEN <<"Int">>
    ELSE IF e.left.atom.tag = "keyword" THEN <<"Boolean">>
    ELSE <<"Int", "Boolean">>

PlainValues(es) == \A i \in DOMAIN es : IsLiteral(es[i]) \/ IsCallOfTwo(es[i])

(* The values of a list of expressions, flattened: the type of each,    *)
(* the location of its expression and its place in the expression.      *)
RECURSIVE FlattenedValues(_)
FlattenedValues(es) ==
    IF Len(es) = 0 THEN <<>>
    ELSE [i \in DOMAIN WrittenTypes(es[1]) |->
            [t |-> WrittenTypes(es[1])[i], location |-> es[1].location,
             index0 |-> i - 1, count |-> Len(WrittenTypes(es[1]))]]
         \o FlattenedValues(Tail(es))

KeywordsOf(types) == [i \in DOMAIN types |-> types[i].keyword]

(* The first value whose type is not the one named at its place. *)
FirstMismatch(flat, names) ==
    CHOOSE i \in DOMAIN flat :
        /\ flat[i].t # names[i]
        /\ \A j \in 1..(i - 1) : flat[j].t = names[j]

EmittedBody == result.functions.at["p.A.g"].body.ops

(* The variable ids from the first temporary of the body on. *)
IdsFrom(first, count) == [i \in 1..count |-> first + i - 1]

(* C14: a return statement whose flattened values are not as many as    *)
(* the return types fails with ValueCountMismatch, the actual count at  *)
(* the span of the returned expressions and the expected count at the   *)
(* span of the return types; with as many, the first value whose type   *)
(* is not the return type at its place fails with TypeMismatch, and     *)
(* with none the body has one op-return, of the values in order.        *)
C14_ReturnChecksCountThenTypes ==
    Terminal /\ TheStatement.tag = "return" /\ PlainValues(TheStatement.values)
    =>
    LET flat == FlattenedValues(TheStatement.values)
        returns == SignatureOfTheFn.returns
    IN  IF Len(flat) # Len(returns)
        THEN /\ pc = "failed"
             /\ error = [kind |-> "ValueCountMismatch", sem |-> TRUE,
                    actualCount |-> Len(flat),
                    actualLocation |->
                        locationSpan(TheStatement.values[1].location,
                            TheStatement.values[Len(TheStatement.values)]
                                .location),
                    expectedCount |-> Len(returns),
                    expectedLocation |->
                        locationSpan(returns[1].location,
                            returns[Len(returns)].location)]
        ELSE IF \E i \in DOMAIN flat : flat[i].t # returns[i].keyword
        THEN LET i == FirstMismatch(flat, KeywordsOf(returns))
             IN  /\ pc = "failed"
                 /\ error = [kind |-> "TypeMismatch", sem |-> TRUE,
                        givenType |-> flat[i].t,
                        givenLocation |-> flat[i].location,
                        givenIndex |-> [index0 |-> flat[i].index0,
                                        count |-> flat[i].count],
                        expectedType |-> returns[i].keyword,
                        expectedLocation |-> returns[i].location]
        ELSE /\ pc = "returned"
             /\ Cardinality({k \in DOMAIN EmittedBody :
                        EmittedBody[k].tag = "op-return"}) = 1
             /\ EmittedBody[Len(EmittedBody)]
                    = [tag |-> "op-return",
                       sources |->
                            IdsFrom(Len(SignatureOfTheFn.parameters),
                                Len(flat)),
                       diagnostic_return_site |-> TheStatement.location]

(* return R[Int].two(); was compiled in a function returning Int,       *)
(* Boolean and refused for its second value in one returning Int, Int.  *)
C14_Witness ==
    /\ Terminal
    /\ TheStatement.tag = "return"
    /\ Len(TheStatement.values) = 1
    /\ IsCallOfTwo(TheStatement.values[1])
    /\ Len(SignatureOfTheFn.returns) = 2
    /\ SignatureOfTheFn.returns[1].keyword = "Int"
    /\ \/ pc = "returned" /\ SignatureOfTheFn.returns[2].keyword = "Boolean"
       \/ error.kind = "TypeMismatch" /\ error.givenIndex.index0 = 1

IsAssign(op) == op.tag = "op-assign"

Callee == sources[1].definitions[2]

IsCall(e) ==
    /\ Len(e.operations) = 0
    /\ Len(e.left.accesses) = 0
    /\ e.left.atom.tag = "call"

IsUndefinedVariable(e) ==
    /\ Len(e.operations) = 0
    /\ Len(e.left.accesses) = 0
    /\ e.left.atom.tag = "iden"
    /\ e.left.atom.name = "zz"

CalleeFns(methodName) ==
    {k \in DOMAIN Callee.fns : Callee.fns[k].signature.name.name = methodName}

(* The name of a type of the callee's signature in a call on base. *)
SubstitutedName(t, base) ==
    IF t.tag = "type-var" THEN base.arguments[1].keyword ELSE t.keyword

PrimitiveOfName(name) == [tag |-> "type-primitive", primitive |-> name]

PlainArguments(es) ==
    \A j \in DOMAIN es :
        IsLiteral(es[j]) \/ IsCallOfTwo(es[j]) \/ IsUndefinedVariable(es[j])

IsStaticCall(op) == op.tag = "op-static-call"

(* C16: a static call fails with CallOnNonCompound when its base is not *)
(* a record type, else with NoSuchFn when the record has no such        *)
(* function; else its arguments are evaluated from left to right and    *)
(* flattened, and it fails with ValueCountMismatch when they are not as *)
(* many as the parameters, else with TypeMismatch at the first argument *)
(* whose type is not the parameter's type with the type arguments of    *)
(* the base in place of the callee's type parameters; else it emits one *)
(* op-var per return type and then one op-static-call with those        *)
(* destinations and the flattened arguments.                            *)
C16_CallChecksInOrder ==
    Terminal /\ TheStatement.tag = "return" /\ Len(TheStatement.values) = 1
        /\ IsCall(TheStatement.values[1])
        /\ PlainArguments(TheStatement.values[1].left.atom.arguments)
    =>
    LET call == TheStatement.values[1].left.atom
        base == call.t
        named == CalleeFns(call.methodName.name)
        undefined == {j \in DOMAIN call.arguments :
                        IsUndefinedVariable(call.arguments[j])}
    IN  IF base.tag # "named"
        THEN /\ pc = "failed"
             /\ error = [kind |-> "CallOnNonCompound", sem |-> TRUE,
                         baseType |-> base.keyword, location |-> base.location]
        ELSE IF named = {}
        THEN /\ pc = "failed"
             /\ error = [kind |-> "NoSuchFn", sem |-> TRUE,
                    baseType |-> "p.R[" \o base.arguments[1].keyword \o "]",
                    methodName |-> call.methodName.name,
                    methodNameLocation |-> call.methodName.location]
        ELSE IF undefined # {}
        THEN /\ pc = "failed"
             /\ error = [kind |-> "VariableNotDefined", sem |-> TRUE,
                    name |-> "zz",
                    referencedAt |->
                        call.arguments[
                            CHOOSE j \in undefined :
                                \A other \in undefined : j <= other
                        ].location]
        ELSE
        LET callee == Callee.fns[CHOOSE k \in named : TRUE].signature
            flat == FlattenedValues(call.arguments)
            expected == [i \in DOMAIN callee.parameters |->
                            SubstitutedName(callee.parameters[i].t, base)]
            first == Len(SignatureOfTheFn.parameters)
            last == Len(EmittedBody) - 1
        IN  IF Len(flat) # Len(callee.parameters)
            THEN /\ pc = "failed"
                 /\ error.kind = "ValueCountMismatch"
                 /\ error.actualCount = Len(flat)
                 /\ error.expectedCount = Len(callee.parameters)
                 /\ Len(call.arguments) > 0 =>
                        error.actualLocation
                            = locationSpan(call.arguments[1].location,
                                call.arguments[Len(call.arguments)].location)
                 /\ Len(callee.parameters) > 0 =>
                        error.expectedLocation
                            = locationSpan(callee.parameters[1].t.location,
                                callee.parameters[Len(callee.parameters)]
                                    .t.location)
            ELSE IF \E i \in DOMAIN flat : flat[i].t # expected[i]
            THEN LET i == FirstMismatch(flat, expected)
                 IN  /\ pc = "failed"
                     /\ error = [kind |-> "TypeMismatch", sem |-> TRUE,
                            givenType |-> flat[i].t,
                            givenLocation |-> flat[i].location,
                            givenIndex |-> [index0 |-> flat[i].index0,
                                            count |-> flat[i].count],
                            expectedType |-> expected[i],
                            expectedLocation |->
                                callee.parameters[i].t.location]
            ELSE IF KeywordsOf(SignatureOfTheFn.returns)
                        # [i \in DOMAIN callee.returns |->
                            SubstitutedName(callee.returns[i], base)]
            THEN /\ pc = "failed"
                 /\ error.kind \in {"ValueCountMismatch", "TypeMismatch"}
                 /\ error.expectedLocation[2][2] = "return-type"
                 /\ error.expectedLocation[2][1] = 1
            ELSE /\ pc = "returned"
                 /\ Len(SelectSeq(EmittedBody, IsStaticCall))
                        = 1 + Cardinality({j \in DOMAIN call.arguments :
                                            IsCallOfTwo(call.arguments[j])})
                 /\ EmittedBody[last]
                        = [tag |-> "op-static-call",
                           function |-> "p.R." \o call.methodName.name,
                           arguments |-> IdsFrom(first, Len(flat)),
                           type_arguments |->
                                <<PrimitiveOfName(base.arguments[1].keyword)>>,
                           destinations |->
                                IdsFrom(first + Len(flat), Len(callee.returns)),
                           diagnostic_callsite |-> call.location]
                 /\ \A i \in DOMAIN callee.returns :
                        EmittedBody[last - Len(callee.returns) + i - 1]
                            = [tag |-> "op-var",
                               type |-> PrimitiveOfName(
                                    SubstitutedName(callee.returns[i], base))]

(* R[Boolean].id(true, 1) was compiled, R[Int].id(true, 1) was refused  *)
(* for the type of its first argument, and R[Int].two(zz) for zz.       *)
C16_Witness ==
    /\ Terminal
    /\ TheStatement.tag = "return"
    /\ Len(TheStatement.values) = 1
    /\ IsCall(TheStatement.values[1])
    /\ LET call == TheStatement.values[1].left.atom
       IN  /\ call.t.tag = "named"
           /\ \/ /\ call.methodName.name = "id"
                 /\ Len(call.arguments) = 2
                 /\ call.arguments[1].left.atom.tag = "keyword"
                 /\ call.arguments[2].left.atom.tag = "number-literal"
                 /\ \/ pc = "returned"
                          /\ call.t.arguments[1].keyword = "Boolean"
                    \/ error.kind = "TypeMismatch"
                          /\ error.expectedType = "Int"
                          /\ error.givenType = "Boolean"
              \/ /\ call.methodName.name = "two"
                 /\ Len(call.arguments) = 1
                 /\ error.kind = "VariableNotDefined"

(* What the source says of return base.name; or return base.name(); *)
IsAccess(e) ==
    /\ Len(e.operations) = 0
    /\ Len(e.left.accesses) = 1

ReturnsAccess ==
    /\ TheStatement.tag = "return"
    /\ Len(TheStatement.values) = 1
    /\ IsAccess(TheStatement.values[1])

AccessedBase == TheStatement.values[1].left.atom

TheAccess == TheStatement.values[1].left.accesses[1]

(* The types of the base of the access, as the source declares them:    *)
(* n: Int, r: R[Int], a number, or the two values of R[Int].two().      *)
AccessedTypes ==
    IF AccessedBase.tag = "iden"
    THEN IF AccessedBase.name = "n" THEN <<"Int">> ELSE <<"p.R[Int]">>
    ELSE IF AccessedBase.tag = "number-literal" THEN <<"Int">>
    ELSE <<"Int", "Boolean">>

(* C17: an access on a base of several values fails with                *)
(* MultiExpressionGrouped, grouping "field" or "method"; a field access *)
(* on one value that is not of a record type fails with                 *)
(* FieldAccessOnNonCompound and a method access on such a value with    *)
(* MethodAccessOnNonCompound, each naming the type of the base.         *)
C17_AccessOnNonCompoundIsRefused ==
    Terminal /\ ReturnsAccess =>
        IF Len(AccessedTypes) # 1
        THEN /\ pc = "failed"
             /\ error = [kind |-> "MultiExpressionGrouped", sem |-> TRUE,
                    location |-> AccessedBase.location,
                    valueCount |-> Len(AccessedTypes),
                    grouping |-> TheAccess.tag, op |-> ""]
        ELSE AccessedTypes = <<"Int">> =>
            /\ pc = "failed"
            /\ error.kind =
                IF TheAccess.tag = "field" THEN "FieldAccessOnNonCompound"
                ELSE "MethodAccessOnNonCompound"
            /\ error.accessedType = "Int"

(* C18: a field access on a value of type R[Int] has the declared type  *)
(* of the field with Int in place of #T: return r.f; and return r.h;    *)
(* are compiled in a function that returns Int and fail with            *)
(* TypeMismatch, given Int, in a function that returns Boolean.         *)
C18_FieldAccessHasSubstitutedType ==
    Terminal /\ ReturnsAccess /\ AccessedTypes = <<"p.R[Int]">>
        /\ TheAccess.tag = "field"
    =>
    IF SignatureOfTheFn.returns[1].keyword = "Int"
    THEN pc = "returned"
    ELSE /\ pc = "failed"
         /\ error.kind = "TypeMismatch"
         /\ error.givenType = "Int"
         /\ error.expectedType = "Boolean"
         /\ error.expectedLocation = SignatureOfTheFn.returns[1].location

(* What the source says of return left operator right; *)
ReturnsOperation ==
    /\ TheStatement.tag = "return"
    /\ Len(TheStatement.values) = 1
    /\ Len(TheStatement.values[1].operations) = 1
    /\ TheStatement.values[1].operations[1].operator.tag = "operator"

LeftOperand == Atom(TheStatement.values[1].left.atom)

RightOperand == Atom(TheStatement.values[1].operations[1].right.atom)

TheOperator == TheStatement.values[1].operations[1].operator

IsForeign(op) == op.tag = "op-foreign"

(* C19: a binary operator that is not logical compiles to one           *)
(* op-foreign chosen by the type of the left value and the operator:    *)
(* Int with ==, + and - gives Int== (a Boolean), Int+ and Int- (an      *)
(* Int), any other left type or operator fails with                     *)
(* TypeDoesNotProvideOperator, and a right value of another type than   *)
(* Int fails with OperatorTypeMismatch.                                 *)
C19_OperatorsCompileToForeign ==
    Terminal /\ ReturnsOperation
        /\ PlainValues(<<LeftOperand, RightOperand>>)
    =>
    LET opStr == TheOperator.operator
        first == Len(SignatureOfTheFn.parameters)
        resultType == IF opStr = "==" THEN "Boolean" ELSE "Int"
        last == Len(EmittedBody) - 1
    IN  IF Len(WrittenTypes(LeftOperand)) # 1
        THEN /\ pc = "failed"
             /\ error = [kind |-> "MultiExpressionGrouped", sem |-> TRUE,
                    location |-> LeftOperand.location,
                    valueCount |-> Len(WrittenTypes(LeftOperand)),
                    grouping |-> "op", op |-> opStr]
        ELSE IF WrittenTypes(LeftOperand) # <<"Int">>
                \/ opStr \notin {"==", "+", "-"}
        THEN /\ pc = "failed"
             /\ error = [kind |-> "TypeDoesNotProvideOperator", sem |-> TRUE,
                    lhsType |-> WrittenTypes(LeftOperand)[1],
                    operator |-> opStr,
                    operatorLocation |-> TheOperator.location]
        ELSE IF Len(WrittenTypes(RightOperand)) # 1
        THEN /\ pc = "failed"
             /\ error = [kind |-> "MultiExpressionGrouped", sem |-> TRUE,
                    location |-> RightOperand.location,
                    valueCount |-> Len(WrittenTypes(RightOperand)),
                    grouping |-> "op", op |-> opStr]
        ELSE IF WrittenTypes(RightOperand) # <<"Int">>
        THEN /\ pc = "failed"
             /\ error = [kind |-> "OperatorTypeMismatch", sem |-> TRUE,
                    lhsType |-> "Int", operator |-> opStr,
                    givenRhsType |-> WrittenTypes(RightOperand)[1],
                    expectedRhsType |-> "Int",
                    rhsLocation |-> RightOperand.location]
        ELSE IF SignatureOfTheFn.returns[1].keyword # resultType
        THEN /\ pc = "failed"
             /\ error.kind = "TypeMismatch"
             /\ error.givenType = resultType
             /\ error.givenLocation
                    = locationSpan(LeftOperand.location, RightOperand.location)
        ELSE /\ pc = "returned"
             /\ Len(SelectSeq(EmittedBody, IsForeign)) = 1
             /\ EmittedBody[last]
                    = [tag |-> "op-foreign", operation |-> "Int" \o opStr,
                       arguments |-> <<first, first + 1>>,
                       destinations |-> <<first + 2>>]
             /\ EmittedBody[last - 1]
                    = [tag |-> "op-var", type |-> PrimitiveOfName(resultType)]

(* return 1 == 1; was compiled in a function returning Boolean,         *)
(* return true + 1; and return 1 < 1; were refused for the operator and *)
(* return 1 - true; for the right operand.                              *)
C19_Witness ==
    /\ Terminal
    /\ ReturnsOperation
    /\ IsLiteral(LeftOperand)
    /\ IsLiteral(RightOperand)
    /\ \/ pc = "returned" /\ TheOperator.operator = "=="
       \/ /\ error.kind = "TypeDoesNotProvideOperator"
          /\ \/ TheOperator.operator = "+" /\ error.lhsType = "Boolean"
             \/ TheOperator.operator = "<" /\ error.lhsType = "Int"
       \/ /\ error.kind = "OperatorTypeMismatch"
          /\ TheOperator.operator = "-"

---------------------------------------------------------------------------
(* compileSources as one function of its argument: the three passes in  *)
(* the order of the loops of the source, each loop over the keys of its *)
(* object in their insertion order.                                      *)

(* The loop of resolveSourceContext over the imports of a source. *)
RECURSIVE resolveImports(_, _, _, _)
resolveImports(source, j, sc, ctx) ==
    IF j > Len(source.imports)
    THEN [err |-> NoErr, sc |-> sc]
    ELSE Let(resolveImport(source.imports[j].imported, source.package, sc, ctx),
             LAMBDA r :
             IF IsErr(r.err) THEN r
             ELSE resolveImports(source, j + 1, r.sc, ctx))

(* for (const sourceID in sources) { resolveSourceContext(..) } *)
RECURSIVE resolveSourceContexts(_, _, _)
resolveSourceContexts(srcs, i, ctx) ==
    IF i > Len(srcs)
    THEN [err |-> NoErr, ctx |-> ctx]
    ELSE Let(resolveImports(srcs[i], 1, OwnPackageContext(srcs[i], ctx), ctx),
             LAMBDA r :
             IF IsErr(r.err)
             THEN [err |-> r.err, ctx |-> ctx]
             ELSE resolveSourceContexts(srcs, i + 1,
                    [ctx EXCEPT !.sourceContexts = Put(@, i, r.sc)]))

(* for (let canonicalEntityName in ..) { collectMembers(..) } *)
RECURSIVE collectMembersOfAll(_, _)
collectMembersOfAll(ctx, k) ==
    IF k > Len(ctx.entitiesByCanonical.keys)
    THEN [err |-> NoErr, ctx |-> ctx]
    ELSE Let(collectMembers(ctx, ctx.entitiesByCanonical.keys[k]),
             LAMBDA r :
             IF IsErr(r.err) THEN r
             ELSE collectMembersOfAll(r.ctx, k + 1))

(* for (let canonicalEntityName in ..) { compileEntity(..) } *)
RECURSIVE compileEntities(_, _, _)
compileEntities(prog, ctx, k) ==
    IF k > Len(ctx.entitiesByCanonical.keys)
    THEN [err |-> NoErr, program |-> prog]
    ELSE Let(compileEntity(prog, ctx, ctx.entitiesByCanonical.keys[k]),
             LAMBDA r :
             IF IsErr(r.err) THEN r
             ELSE compileEntities(r.program, ctx, k + 1))

compileSources(srcs) ==
    Let(collectAllEntities(srcs),
        LAMBDA collected :
        IF IsErr(collected.err)
        THEN [err |-> collected.err, program |-> Null]
        ELSE Let(resolveSourceContexts(srcs, 1, collected.ctx),
        LAMBDA resolved :
        IF IsErr(resolved.err)
        THEN [err |-> resolved.err, program |-> Null]
        ELSE Let(collectMembersOfAll(resolved.ctx, 1),
        LAMBDA members :
        IF IsErr(members.err)
        THEN [err |-> members.err, program |-> Null]
        ELSE Let(compileEntities(NewProgram(members.ctx),
                    [members.ctx EXCEPT !.hasCollectedMembers = TRUE], 1),
        LAMBDA compiled :
        IF IsErr(compiled.err)
        THEN [err |-> compiled.err, program |-> Null]
        ELSE compiled))))

---------------------------------------------------------------------------
(* Sources about visiting orders.  Source 1 is of package p, imports    *)
(* nothing or q.B, and has up to MaxEntities definitions, each one of    *)
(*   record A { var x: B; fn g(b: B): B { return b; } }                  *)
(*   record A { }                                                        *)
(*   interface B { }                                                     *)
(*   record C { fn g(): Int { return true; } }                           *)
(* Source 2 is of package p or q and defines record T { }, or            *)
(* record B { var t: T; } and then record T { }.                         *)

MaxEntities == 2

EntityKinds ==
    {"record A { var x: B; }", "record A { }", "interface B { }",
     "record C { fn g(): Int { return true; } }"}

OrdersImports == {<<>>, <<<<"q", "B">>>>}

RecordB == NamedShape("", "B", <<>>)

EntityOfKind(kind, sid, d) ==
    IF kind = "record A { var x: B; }"
    THEN RecordDefinition("A", NoTypeParameters,
            <<Field("x", RecordB, sid, d, 1)>>,
            <<Fn(FnSignature("g", <<<<"b", RecordB>>>>, <<RecordB>>, sid, d, 1),
                 Block(<<ReturnSt(<<Variable("b", Loc(sid, d, "value", 1, 0))>>,
                            Loc(sid, d, "return", 1, 0))>>,
                       Loc(sid, d, "body", 1, 0)))>>,
            sid, d)
    ELSE IF kind = "record A { }"
    THEN RecordDefinition("A", NoTypeParameters, <<>>, <<>>, sid, d)
    ELSE IF kind = "interface B { }"
    THEN InterfaceDefinition("B", NoTypeParameters, <<>>, sid, d)
    ELSE IF kind = "record C { fn g(): Int { return true; } }"
    THEN RecordDefinition("C", NoTypeParameters, <<>>,
            <<Fn(FnSignature("g", <<>>, <<IntShape>>, sid, d, 1),
                 Block(<<ReturnSt(<<Keyword("true", Loc(sid, d, "value", 1, 0))>>,
                            Loc(sid, d, "return", 1, 0))>>,
                       Loc(sid, d, "body", 1, 0)))>>,
            sid, d)
    ELSE IF kind = "record B { var t: T; }"
    THEN RecordDefinition("B", NoTypeParameters,
            <<Field("t", NamedShape("", "T", <<>>), sid, d, 1)>>, <<>>, sid, d)
    ELSE RecordDefinition("T", NoTypeParameters, <<>>, <<>>, sid, d)

EntitiesOfKinds(kinds, sid) ==
    [d \in DOMAIN kinds |-> EntityOfKind(kinds[d], sid, d)]

OtherEntities ==
    {<<"record T { }">>, <<"record B { var t: T; }", "record T { }">>}

OrdersSources(imports, kinds, package2, kinds2) ==
    <<Source(PackageDef("p", 1), Imports(imports, 1), EntitiesOfKinds(kinds, 1)),
      Source(PackageDef(package2, 2), <<>>, EntitiesOfKinds(kinds2, 2))>>

OrdersInputs ==
    {OrdersSources(imports, kinds, package2, kinds2) :
        imports \in OrdersImports,
        kinds \in UNION {[1..n -> EntityKinds] : n \in 0..MaxEntities},
        package2 \in {"p", "q"},
        kinds2 \in OtherEntities}

InitOrders == \E srcs \in OrdersInputs : Called(srcs)

SpecOrders == InitOrders /\ [][Next]_vars

(* The orders in which n things can be visited. *)
Orders(n) == {order \in [1..n -> 1..n] : \A i \in 1..n : \E j \in 1..n : order[j] = i}

(* One order for the sources and one for the definitions of each. *)
VisitingOrders(srcs) ==
    {<<sourceOrder, definitionOrders>> :
        sourceOrder \in Orders(Len(srcs)),
        definitionOrders \in
            {orders \in [DOMAIN srcs -> UNION {Orders(n) : n \in 0..MaxEntities}] :
                \A i \in DOMAIN srcs :
                    DOMAIN orders[i] = DOMAIN srcs[i].definitions}}

(* The same sources and the same definitions, met in another order. *)
Reordered(srcs, visiting) ==
    [i \in DOMAIN srcs |->
        LET source == srcs[visiting[1][i]]
            order == visiting[2][visiting[1][i]]
        IN  [source EXCEPT !.definitions =
                [d \in DOMAIN order |-> source.definitions[order[d]]]]]

SameTable(a, b) == Range(a.keys) = Range(b.keys) /\ a.at = b.at

SameProgram(a, b) ==
    /\ SameTable(a.functions, b.functions)
    /\ SameTable(a.records, b.records)
    /\ SameTable(a.interfaces, b.interfaces)
    /\ a.foreign = b.foreign

IsIdentity(visiting) ==
    /\ \A i \in DOMAIN visiting[1] : visiting[1][i] = i
    /\ \A i \in DOMAIN visiting[2] :
            \A d \in DOMAIN visiting[2][i] : visiting[2][i][d] = d

(* C20: the outcome of compileSources does not depend on the order in   *)
(* which the sources and the entities are visited: when the call has    *)
(* ended, compiling the same sources and definitions visited in any     *)
(* other order is accepted exactly if this call returned, and then      *)
(* returns the same functions, records and interfaces.                  *)
C20_OutcomeIndependentOfVisitingOrder ==
    Terminal =>
        \A visiting \in VisitingOrders(sources) :
            LET other == compileSources(Reordered(sources, visiting))
            IN  /\ IsErr(other.err) <=> pc = "failed"
                /\ pc = "returned" => SameProgram(other.program, result)
                /\ IsIdentity(visiting) /\ pc = "failed" => other.err = error

(* An accepted call with three records and the function p.A.g, whose   *)
(* sources and definitions can be visited in four orders.               *)
C20_Witness ==
    /\ pc = "returned"
    /\ Len(sources[2].definitions) = 2
    /\ Cardinality(Range(result.records.keys)) = 3
    /\ Len(result.functions.keys) = 1
    /\ Cardinality(VisitingOrders(sources)) = 4

---------------------------------------------------------------------------
(* Sources about scopes.  Source 1 is                                   *)
(*     package p; import q;                                             *)
(*     record A { fn g(b: Boolean, n: Int): Boolean                     *)
(*                requires .. ensures .. { up to MaxStmts statements } } *)
(* with up to MaxClauses clauses of each kind; the statements declare    *)
(* variables in nested blocks and use logical operations.               *)

LogicalOperators == {"and", "or", "implies"}

(* The j-th operand of the k-th expression: a variable, a literal, the *)
(* return expression or (b or true).                                   *)
RECURSIVE ScopeOperand(_, _, _)
ScopeOperand(text, k, j) ==
    LET location == Loc(1, 1, text, k, j)
    IN  ExpressionOperand(
            IF text \in {"true", "return"} THEN KeywordToken(text, location)
            ELSE IF text \in {"1", "2"}
            THEN NumberLiteral(IF text = "1" THEN 1 ELSE 2, location)
            ELSE IF text = "(b or true)"
            THEN ExpressionParenthesized(
                    Expression(ScopeOperand("b", k, j + 2),
                        <<ExpressionOperation(
                            KeywordToken("or", Loc(1, 1, "or", k, j + 2)),
                            ScopeOperand("true", k, j + 4))>>),
                    location)
            ELSE VarIden(text, location),
            <<>>)

(* <<operand>> or <<left, operator, right>> as the k-th expression *)
ScopeExpression(words, k) ==
    IF Len(words) = 1
    THEN Expression(ScopeOperand(words[1], k, 1), <<>>)
    ELSE Expression(ScopeOperand(words[1], k, 1),
            <<ExpressionOperation(
                IF words[2] \in LogicalOperators
                THEN KeywordToken(words[2], Loc(1, 1, "operator", k, 0))
                ELSE OperatorToken(words[2], Loc(1, 1, "operator", k, 0)),
                ScopeOperand(words[3], k, 2))>>)

(* var name: shape = words; at place k *)
ScopeVar(name, shape, words, k) ==
    VarSt(<<VarDecl(name, TypeAST(shape, Loc(1, 1, "var-type", k, 0)),
                Loc(1, 1, "var-decl", k, 0))>>,
          <<ScopeExpression(words, k)>>, Loc(1, 1, "var", k, 0))

ScopeKinds ==
    {"var x: Boolean = b and true;",
     "var x: Int = n + 1;",
     "if b { var y: Boolean = true; } else if b or b { var y: Int = 2; } else { var z: Boolean = b implies b; }",
     "if x { var y: Int = n; }",
     "return b and (b or true);",
     "return x;"}

(* The k-th statement of the body; the places of its parts are 10k.. *)
ScopeStatement(kind, k) ==
    IF kind = "var x: Boolean = b and true;"
    THEN ScopeVar("x", BooleanShape, <<"b", "and", "true">>, 10 * k)
    ELSE IF kind = "var x: Int = n + 1;"
    THEN ScopeVar("x", IntShape, <<"n", "+", "1">>, 10 * k)
    ELSE IF kind = "if x { var y: Int = n; }"
    THEN IfSt(ScopeExpression(<<"x">>, 10 * k),
            Block(<<ScopeVar("y", IntShape, <<"n">>, 10 * k + 1)>>,
                Loc(1, 1, "then", k, 0)),
            <<>>, Null, Loc(1, 1, "if", k, 0))
    ELSE IF kind = "return b and (b or true);"
    THEN ReturnSt(<<ScopeExpression(<<"b", "and", "(b or true)">>, 10 * k)>>,
            Loc(1, 1, "return", k, 0))
    ELSE IF kind = "return x;"
    THEN ReturnSt(<<ScopeExpression(<<"x">>, 10 * k)>>,
            Loc(1, 1, "return", k, 0))
    ELSE IfSt(ScopeExpression(<<"b">>, 10 * k),
            Block(<<ScopeVar("y", BooleanShape, <<"true">>, 10 * k + 1)>>,
                Loc(1, 1, "then", k, 0)),
            <<[condition |-> ScopeExpression(<<"b", "or", "b">>, 10 * k + 2),
               body |-> Block(<<ScopeVar("y", IntShape, <<"2">>, 10 * k + 3)>>,
                            Loc(1, 1, "else-if", k, 0))]>>,
            [body |-> Block(<<ScopeVar("z", BooleanShape,
                                <<"b", "implies", "b">>, 10 * k + 4)>>,
                        Loc(1, 1, "else", k, 0))],
            Loc(1, 1, "if", k, 0))

RequiresClauses == {<<"b", "or", "true">>, <<"n">>}

EnsuresClauses == {<<"return", "implies", "b">>, <<"true">>}

(* The i-th clause of its kind; the places of its parts are 100i.. *)
ScopeClause(words, i) == [expression |-> ScopeExpression(words, 100 * i)]

RecordWithScopes(requires, ensures, kinds) ==
    RecordDefinition("A", NoTypeParameters, <<>>,
        <<Fn([FnSignature("g", <<<<"b", BooleanShape>>, <<"n", IntShape>>>>,
                    <<BooleanShape>>, 1, 1, 1) EXCEPT
                !.requires = [i \in DOMAIN requires |->
                                ScopeClause(requires[i], i)],
                !.ensures = [i \in DOMAIN ensures |->
                                ScopeClause(ensures[i], i + MaxClauses)]],
             Block([k \in DOMAIN kinds |-> ScopeStatement(kinds[k], k)],
                Loc(1, 1, "body", 0, 0)))>>,
        1, 1)

ScopesInputs ==
    {MembersSources(<<<<"q", "">>>>, RecordWithScopes(requires, ensures, kinds)) :
        requires \in SeqUpTo(RequiresClauses, MaxClauses),
        ensures \in SeqUpTo(EnsuresClauses, MaxClauses),
        kinds \in SeqUpTo(ScopeKinds, MaxStmts)}

InitScopes == \E srcs \in ScopesInputs : Called(srcs)

SpecScopes == InitScopes /\ [][Next]_vars

(* What the source about scopes says, and what was compiled from it. *)
WrittenSignatureOfG == TheDefinition.fns[1].signature

CompiledG == result.functions.at["p.A.g"]

ParameterCount == Len(WrittenSignatureOfG.parameters)

ReturnCount == Len(WrittenSignatureOfG.returns)

(* The variable ids that an op reads or writes. *)
UsedIds(op) ==
    IF op.tag = "op-const" THEN {op.destination}
    ELSE IF op.tag = "op-assign" THEN {op.destination, op.source}
    ELSE IF op.tag = "op-branch" THEN {op.condition}
    ELSE IF op.tag \in {"op-static-call", "op-foreign"}
    THEN Range(op.arguments) \cup Range(op.destinations)
    ELSE IF op.tag = "op-return" THEN Range(op.sources)
    ELSE {}

(* The size of the stack after ops[k..] were emitted at stack size n,   *)
(* each op-var being the definition of one variable and each branch     *)
(* being emitted in a block that is closed after it; -1 if some op uses *)
(* an id that is not below the stack size at its place.                 *)
RECURSIVE BoundAfter(_, _, _)
BoundAfter(ops, k, n) ==
    IF n < 0 THEN -1
    ELSE IF k > Len(ops) THEN n
    ELSE IF ops[k].tag = "op-var" THEN BoundAfter(ops, k + 1, n + 1)
    ELSE IF \E id \in UsedIds(ops[k]) : id \notin 0..(n - 1) THEN -1
    ELSE IF ops[k].tag = "op-branch"
            /\ (BoundAfter(ops[k].trueBranch.ops, 1, n) < 0
                \/ BoundAfter(ops[k].falseBranch.ops, 1, n) < 0)
    THEN -1
    ELSE BoundAfter(ops, k + 1, n)

(* A contract whose ops and result use bound variables only. *)
ContractBound(contract, n) ==
    LET after == BoundAfter(contract.block.ops, 1, n)
    IN  after >= 0 /\ contract.result \in 0..(after - 1)

(* C21: every variable id that an op of a compiled function uses, or   *)
(* that a contract records as its result, is below the stack size at    *)
(* the place of the op: it is a parameter, a return temporary of the    *)
(* ensures clauses, or a variable defined earlier in the same op list or *)
(* in an enclosing one; no op uses a variable of a closed block.        *)
C21_OpsUseBoundVariables ==
    pc = "returned" =>
        /\ BoundAfter(CompiledG.body.ops, 1, ParameterCount) >= 0
        /\ \A i \in DOMAIN CompiledG.signature.preconditions :
            ContractBound(CompiledG.signature.preconditions[i], ParameterCount)
        /\ \A i \in DOMAIN CompiledG.signature.postconditions :
            ContractBound(CompiledG.signature.postconditions[i],
                ParameterCount + ReturnCount)

IsBranch(op) == op.tag = "op-branch"

(* A function was compiled whose body has a branch in the false branch *)
(* of a branch, both with variables of their own, and whose contracts  *)
(* have ops.                                                           *)
C21_Witness ==
    /\ pc = "returned"
    /\ \E k \in DOMAIN CompiledG.body.ops :
        /\ IsBranch(CompiledG.body.ops[k])
        /\ \E j \in DOMAIN CompiledG.body.ops[k].falseBranch.ops :
            /\ IsBranch(CompiledG.body.ops[k].falseBranch.ops[j])
            /\ \E op \in Range(CompiledG.body.ops[k].falseBranch.ops[j]
                                    .falseBranch.ops) : op.tag = "op-var"
    /\ Len(CompiledG.signature.preconditions) > 0
    /\ Len(CompiledG.signature.postconditions) > 0
    /\ CompiledG.signature.postconditions[1].block.ops # <<>>
    /\ CompiledG.signature.postconditions[1].result > ParameterCount

(* The ids start.. in the order of their definition. *)
IdsFromTo(first, count) == [i \in 1..count |-> first + i - 1]

AreVars(ops, from, to) ==
    from >= 1 /\ \A i \in from..to : ops[i].tag = "op-var"

(* ops[k..] define their variables in order: n variables are bound      *)
(* before ops[k], the op list began at stack size start, each op-var    *)
(* defines the variable whose id is the stack size, and the op that     *)
(* first writes a variable (the op-const of a literal, the call that    *)
(* fills its destinations, the op-assign of a var statement, the last   *)
(* op of the branches of a logical operation) writes that id.           *)
RECURSIVE DefinesInOrder(_, _, _, _)
DefinesInOrder(ops, k, n, start) ==
    IF k > Len(ops) THEN TRUE
    ELSE
    LET op == ops[k]
    IN  IF op.tag = "op-var" THEN DefinesInOrder(ops, k + 1, n + 1, start)
        ELSE
        /\ op.tag = "op-const" /\ k > 1 /\ ops[k - 1].tag = "op-var"
            => op.destination = n - 1
        /\ op.tag \in {"op-static-call", "op-foreign"}
            => /\ AreVars(ops, k - Len(op.destinations), k - 1)
               /\ op.destinations
                    = IdsFromTo(n - Len(op.destinations), Len(op.destinations))
        /\ op.tag \in {"op-assign", "op-const"}
            => IF k > 1 /\ ops[k - 1].tag = "op-var"
               THEN op.destination = n - 1
               ELSE k = Len(ops) /\ op.destination = start - 1
        /\ op.tag = "op-branch"
            => /\ DefinesInOrder(op.trueBranch.ops, 1, n, n)
               /\ DefinesInOrder(op.falseBranch.ops, 1, n, n)
        /\ DefinesInOrder(ops, k + 1, n, start)

ParameterNames ==
    [i \in DOMAIN WrittenSignatureOfG.parameters |->
        WrittenSignatureOfG.parameters[i].name.name]

(* C22: in a compiled function the id of a variable is the size of the *)
(* stack when it is defined: the parameters have the ids 0.. in the    *)
(* order of their declaration and are all that is bound after the      *)
(* signature, and in each op list (the body, the branches, the blocks  *)
(* of the contracts) the j-th op-var defines the id (stack size where   *)
(* the list began) + j.                                                 *)
C22_IdsAreStackPositions ==
    pc = "returned" =>
        /\ SignatureOfG.stack.stack = ParameterNames
        /\ DOMAIN SignatureOfG.stack.variables = Range(ParameterNames)
        /\ \A i \in DOMAIN ParameterNames :
            SignatureOfG.stack.variables[ParameterNames[i]].id = i - 1
        /\ DefinesInOrder(CompiledG.body.ops, 1, ParameterCount, ParameterCount)
        /\ \A i \in DOMAIN CompiledG.signature.preconditions :
            DefinesInOrder(CompiledG.signature.preconditions[i].block.ops, 1,
                ParameterCount, ParameterCount)
        /\ \A i \in DOMAIN CompiledG.signature.postconditions :
            DefinesInOrder(CompiledG.signature.postconditions[i].block.ops, 1,
                ParameterCount + ReturnCount, ParameterCount + ReturnCount)

(* A function was compiled whose body defines a variable after a       *)
(* closed if statement that defined variables of its own, so that an id *)
(* is used again.                                                       *)
C22_Witness ==
    /\ pc = "returned"
    /\ Len(TheDefinition.fns[1].body.statements) = 2
    /\ TheDefinition.fns[1].body.statements[1].tag = "if"
    /\ TheDefinition.fns[1].body.statements[2].tag = "var"
    /\ \E op \in Range(CompiledG.body.ops[1].trueBranch.ops) : op.tag = "op-var"
    /\ \E k \in DOMAIN CompiledG.body.ops :
        CompiledG.body.ops[k].tag = "op-assign"

(* programContext.hasCollectedMembers, once there is a ProgramContext. *)
HasCollected == programContext # Null /\ programContext.hasCollectedMembers

(* collectMembers has bound every member that the definition of every *)
(* entity declares.                                                   *)
AllMembersCollected ==
    \A name \in Range(Entities) :
        LET entity == programContext.entitiesByCanonical.at[name]
        IN  IF entity.tag = "record"
            THEN /\ Len(entity.fields.keys) = Len(entity.ast.fields)
                 /\ Len(entity.fns.keys) = Len(entity.ast.fns)
            ELSE Len(entity.fns.keys) = Len(entity.ast.members)

InvalidArgumentFault == PlainError("Invalid checkConstraints argument.")

FlagFollowsThePasses ==
    /\ error # InvalidArgumentFault
    /\ HasCollected => AllMembersCollected
    /\ programContext # Null /\ ~HasCollected =>
            /\ program = Null
            /\ pc \in {"resolveSourceContext", "resolveImport", "collectMembers",
                       "hasCollectedMembers", "failed"}
    /\ pc \in {"compileEntity", "return", "returned"} => HasCollected
    /\ program # Null => HasCollected

FlagIsSetOnce ==
    /\ HasCollected => HasCollected'
    /\ ~HasCollected /\ HasCollected' =>
            /\ pc = "hasCollectedMembers"
            /\ pc' \in {"compileEntity", "return"}
            /\ AllMembersCollected

---------------------------------------------------------------------------
(* VariableStack as a state machine: up to MaxCalls calls of its        *)
(* methods on one stack.  result is the VariableStack (this), pc the    *)
(* method called last, sources its arguments, error what it threw and   *)
(* idx the number of calls made.  The names that a caller passes to     *)
(* defineVariable are identifiers of the source text, which do not      *)
(* begin with $.                                                         *)

MaxCalls == 5

UserNames == {"a", "b"}

VariableTypes == {T_INT, T_BOOLEAN}

InitVariableStack ==
    /\ result = NewVariableStack
    /\ pc = "new"
    /\ sources = Null
    /\ error = NoErr
    /\ idx = 0
    /\ imp = 0
    /\ sourceContext = Null
    /\ programContext = Null
    /\ program = Null

(* One call made: its name, its arguments, what it threw. *)
Call(method, arguments, e) ==
    /\ idx < MaxCalls
    /\ idx' = idx + 1
    /\ pc' = method
    /\ sources' = arguments
    /\ error' = e
    /\ UNCHANGED <<imp, sourceContext, programContext, program>>

DefineVariable ==
    \E name \in UserNames, t \in VariableTypes :
        LET location == Loc(1, 1, "variable", idx, 0)
            defined == defineVariable(result, name, t, location)
        IN  /\ Call("defineVariable",
                    [name |-> name, t |-> t, location |-> location],
                    defined.err)
            /\ result' = defined.stack

DefineTemporary ==
    \E t \in VariableTypes :
        LET location == Loc(1, 1, "temporary", idx, 0)
            defined == defineTemporary(result, t, location)
        IN  /\ Call("defineTemporary", [t |-> t, location |-> location],
                    defined.err)
            /\ result' = defined.stack

Resolve ==
    \E name \in UserNames :
        LET variable == IdenToken(name, Loc(1, 1, "use", idx, 0))
        IN  /\ Call("resolve", variable, resolve(result, variable).err)
            /\ result' = result

OpenBlock ==
    /\ Call("openBlock", Null, NoErr)
    /\ result' = openBlock(result)

CloseBlock ==
    /\ Call("closeBlock", Null, closeBlock(result).err)
    /\ result' = closeBlock(result).stack

NextVariableStack ==
    \/ DefineVariable
    \/ DefineTemporary
    \/ Resolve
    \/ OpenBlock
    \/ CloseBlock

SpecVariableStack == InitVariableStack /\ [][NextVariableStack]_vars

(* The stack as the calls left it. *)
BoundNames == DOMAIN result.variables

NamesAreTheStack ==
    /\ BoundNames = Range(result.stack)
    /\ \A i, j \in DOMAIN result.stack :
            result.stack[i] = result.stack[j] => i = j
    /\ \A i \in DOMAIN result.stack :
            result.variables[result.stack[i]].id = i - 1

(* The length of the stack when the innermost open block was opened. *)
BlockStart == result.blocks[Len(result.blocks)]

DefineOfBoundNameFails ==
    pc' = "defineVariable" /\ sources'.name \in BoundNames
        => /\ error' = [kind |-> "VariableRedefined", sem |-> TRUE,
                        name |-> sources'.name,
                        firstLocation |->
                            result.variables[sources'.name].bindingLocation,
                        secondLocation |-> sources'.location]
           /\ result' = result

DefineOfNewNameBinds ==
    pc' = "defineVariable" /\ sources'.name \notin BoundNames
        => /\ error' = NoErr
           /\ result'.stack = Append(result.stack, sources'.name)
           /\ result'.blocks = result.blocks
           /\ \A n \in BoundNames : result'.variables[n] = result.variables[n]

OpenBlockRemembersTheLength ==
    pc' = "openBlock"
        => result' = [result EXCEPT !.blocks = Append(@, Len(result.stack))]

CloseBlockRestores ==
    pc' = "closeBlock" /\ Len(result.blocks) > 0
        => /\ error' = NoErr
           /\ result'.stack = SubSeq(result.stack, 1, BlockStart)
           /\ result'.blocks = SubSeq(result.blocks, 1, Len(result.blocks) - 1)
           /\ DOMAIN result'.variables
                = BoundNames \ {result.stack[i] :
                                    i \in (BlockStart + 1)..Len(result.stack)}
           /\ \A n \in DOMAIN result'.variables :
                result'.variables[n] = result.variables[n]

CloseWithoutBlockIsAFault ==
    pc' = "closeBlock" /\ Len(result.blocks) = 0
        => /\ error' = [kind |-> "Error", sem |-> FALSE,
                        message |-> "block is not open"]
           /\ result' = result

TemporaryIsAlwaysDefined ==
    pc' = "defineTemporary"
        => /\ error' = NoErr
           /\ result'.stack
                = Append(result.stack, "$" \o ToString(Len(result.stack)))

(* C24: after any calls of the methods of a VariableStack the bound    *)
(* names are pairwise distinct and are the names on the stack;          *)
(* defineVariable of a bound name (of whatever block) throws            *)
(* VariableRedefined and changes nothing; closeBlock unbinds the names  *)
(* defined since the matching openBlock, cuts the stack to its length   *)
(* at that openBlock and keeps every earlier binding; closeBlock        *)
(* without an open block throws; defineTemporary never throws.          *)
C24_StackDiscipline ==
    /\ [](NamesAreTheStack)
    /\ [][/\ DefineOfBoundNameFails
          /\ DefineOfNewNameBinds
          /\ OpenBlockRemembersTheLength
          /\ CloseBlockRestores
          /\ CloseWithoutBlockIsAFault
          /\ TemporaryIsAlwaysDefined]_vars

(* A block with a variable and a temporary of its own was closed over  *)
(* an earlier variable, and a temporary was defined after it under the  *)
(* name that the closed block had used.                                 *)
C24_Witness ==
    /\ pc = "defineTemporary"
    /\ idx = 5
    /\ result.stack = <<"a", "$1">>
    /\ result.blocks = <<>>
    /\ result.variables["$1"].bindingLocation = Loc(1, 1, "temporary", 4, 0)

---------------------------------------------------------------------------
(* Sources about logical operations: the statement of g is              *)
(*     var x: Boolean = left operator right;                            *)
(* with operator one of and, or, implies and the operands the parameter *)
(* b, a literal or a call of two values.                                *)

LogicalOperands == ValueKinds \cup {"b"}

LogicalOperand(kind, i) ==
    IF kind = "b" THEN Variable("b", Loc(1, 1, "value", i, 0))
    ELSE ValueExpression(kind, i)

LogicalInputs ==
    {StatementSources(<<IntShape>>,
        VarValues(<<BooleanShape>>,
            <<Expression(LogicalOperand(left, 1).left,
                <<ExpressionOperation(
                    KeywordToken(operator, Loc(1, 1, "operator", 1, 0)),
                    LogicalOperand(right, 2).left)>>)>>)) :
        left \in LogicalOperands, operator \in LogicalOperators,
        right \in LogicalOperands}

InitLogical == \E srcs \in LogicalInputs : Called(srcs)

SpecLogical == InitLogical /\ [][Next]_vars

(* What the source says of var x: Boolean = left operator right; *)
LogicalLeft == Atom(TheStatement.initialization[1].left.atom)

LogicalRight == Atom(TheStatement.initialization[1].operations[1].right.atom)

LogicalOperator == TheStatement.initialization[1].operations[1].operator

IsB(e) == e.left.atom.tag = "iden"

OneBoolean(e) == IsB(e) \/ WrittenTypes(e) = <<"Boolean">>

(* The ops of an operand that is b or true, emitted at stack size n, *)
(* and the id of its value; b is the second parameter of g.          *)
OperandOps(e, n) ==
    IF IsB(e) THEN <<>>
    ELSE <<[tag |-> "op-var",
            type |-> [tag |-> "type-primitive", primitive |-> "Boolean"]],
           [tag |-> "op-const", destination |-> n,
            value |-> [boolean |-> TRUE]]>>

OperandId(e, n) == IF IsB(e) THEN 1 ELSE n

(* The error of expectOneBooleanForLogical for an operand. *)
NotOneBoolean(e) ==
    IF Len(WrittenTypes(e)) # 1
    THEN [kind |-> "MultiExpressionGrouped", sem |-> TRUE,
          location |-> e.location, valueCount |-> Len(WrittenTypes(e)),
          grouping |-> "op", op |-> LogicalOperator.keyword]
    ELSE [kind |-> "BooleanTypeExpected", sem |-> TRUE,
          givenType |-> WrittenTypes(e)[1], location |-> e.location,
          reason |-> "logical-op", what |-> LogicalOperator.keyword]

(* C25: left operator right with operator and, or or implies compiles   *)
(* to the ops of left, one op-var of a Boolean result and one op-branch  *)
(* on the value of left; the ops of right are in the false branch for   *)
(* or and in the true branch for and and implies, followed there by the *)
(* op-assign of the value of right to the result; the other branch is   *)
(* the op-assign of the value of left (and, or) or the op-const of true *)
(* (implies) to the result; and the variable defined after the          *)
(* expression has the id after the result: the stack holds what it held *)
(* after left, and the result.  An operand that is not one Boolean is   *)
(* refused, left before right.                                          *)
C25_LogicalOperationsShortCircuit ==
    Terminal =>
    LET first == Len(SignatureOfTheFn.parameters)
        leftId == OperandId(LogicalLeft, first)
        resultId == first + Len(OperandOps(LogicalLeft, first)) \div 2
        rightId == OperandId(LogicalRight, resultId + 1)
        evaluated ==
            Append(OperandOps(LogicalRight, resultId + 1),
                [tag |-> "op-assign", destination |-> resultId,
                 source |-> rightId])
        shortCircuit ==
            IF LogicalOperator.keyword = "implies"
            THEN <<[tag |-> "op-const", destination |-> resultId,
                    value |-> TRUE]>>
            ELSE <<[tag |-> "op-assign", destination |-> resultId,
                    source |-> leftId]>>
        boolean == [tag |-> "type-primitive", primitive |-> "Boolean"]
    IN  IF ~OneBoolean(LogicalLeft)
        THEN pc = "failed" /\ error = NotOneBoolean(LogicalLeft)
        ELSE IF ~OneBoolean(LogicalRight)
        THEN pc = "failed" /\ error = NotOneBoolean(LogicalRight)
        ELSE /\ pc = "returned"
             /\ EmittedBody =
                    OperandOps(LogicalLeft, first)
                    \o <<[tag |-> "op-var", type |-> boolean],
                         [tag |-> "op-branch", condition |-> leftId,
                          trueBranch |->
                            [ops |-> IF LogicalOperator.keyword = "or"
                                     THEN shortCircuit ELSE evaluated],
                          falseBranch |->
                            [ops |-> IF LogicalOperator.keyword = "or"
                                     THEN evaluated ELSE shortCircuit]],
                         [tag |-> "op-var", type |-> boolean],
                         [tag |-> "op-assign", destination |-> resultId + 1,
                          source |-> resultId],
                         [tag |-> "op-unreachable", diagnostic_kind |-> "return",
                          diagnostic_location |->
                            TheDefinition.fns[1].body.closing]>>

(* var x: Boolean = true or true; was compiled: both operands define a *)
(* temporary, and x has the id that the temporary of right had.        *)
C25_Witness ==
    /\ pc = "returned"
    /\ LogicalOperator.keyword = "or"
    /\ ~IsB(LogicalLeft)
    /\ ~IsB(LogicalRight)
    /\ EmittedBody[4].falseBranch.ops[2].destination
        = EmittedBody[6].destination

---------------------------------------------------------------------------
(* Sources about var statements: the statement of                       *)
(*     fn g(n: Int, b: Boolean, r: R[Int]): Int                         *)
(* is var name1: t1, name2: t2 = values; with the names x, which is not *)
(* in scope, and n, which is a parameter, and with the values 1,        *)
(* R[Int].two() and the variable x.                                     *)

DeclaredNames == {"x", "n"}

InitializerKinds == {"1", "R[Int].two()", "x"}

Initializer(kind, i) ==
    IF kind = "x" THEN Variable("x", Loc(1, 1, "value", i, 0))
    ELSE ValueExpression(kind, i)

VarNamed(declarations, kinds) ==
    VarSt([i \in DOMAIN declarations |->
                VarDecl(declarations[i][1],
                    TypeAST(declarations[i][2], Loc(1, 1, "var-type", i, 0)),
                    Loc(1, 1, "var-decl", i, 0))],
          [i \in DOMAIN kinds |-> Initializer(kinds[i], i)],
          Loc(1, 1, "statement", 1, 0))

VarsInputs ==
    {StatementSources(<<IntShape>>, VarNamed(declarations, kinds)) :
        declarations \in SeqUpTo(DeclaredNames \X TypeKeywords, MaxValues) \ {<<>>},
        kinds \in SeqUpTo(InitializerKinds, MaxValues) \ {<<>>}}

InitVars == \E srcs \in VarsInputs : Called(srcs)

SpecVars == InitVars /\ [][Next]_vars

(* What the source says of the var statement. *)
IsX(e) == e.left.atom.tag = "iden"

RefersToDeclared == \E i \in DOMAIN TheStatement.initialization :
    IsX(TheStatement.initialization[i])

FirstReference == CHOOSE i \in DOMAIN TheStatement.initialization :
    /\ IsX(TheStatement.initialization[i])
    /\ \A j \in 1..(i - 1) : ~IsX(TheStatement.initialization[j])

FanOut == Len(FlattenedValues(TheStatement.initialization))

(* A declared name that is a parameter of g or an earlier name of the *)
(* statement.                                                          *)
Collides(i) ==
    \/ \E j \in DOMAIN SignatureOfTheFn.parameters :
        SignatureOfTheFn.parameters[j].name.name
            = TheStatement.variables[i].variable.name
    \/ \E j \in 1..(i - 1) :
        TheStatement.variables[j].variable.name
            = TheStatement.variables[i].variable.name

SomeNameCollides == \E i \in DOMAIN TheStatement.variables : Collides(i)

(* The initializers are compiled before a variable of the statement is *)
(* declared: x in an initializer is not defined, whatever is declared. *)
InitializersBeforeDeclarations ==
    (Terminal /\ RefersToDeclared) =>
        /\ pc = "failed"
        /\ error = VariableNotDefinedErr("x",
                TheStatement.initialization[FirstReference].location)

(* What compileVarSt does when no initializer fails: the declarations, *)
(* and only then the count of the values.                              *)
DeclarationsBeforeFanOut ==
    (Terminal /\ ~RefersToDeclared) =>
        IF SomeNameCollides
        THEN pc = "failed" /\ error.kind = "VariableRedefined"
        ELSE IF FanOut # Len(TheStatement.variables)
        THEN pc = "failed" /\ error.kind = "ValueCountMismatch"
        ELSE pc = "returned" \/ error.kind = "TypeMismatch"

(* C26: in a var statement all initializers are evaluated before a     *)
(* variable of the statement is declared, and the count of the          *)
(* flattened values is compared with the count of the declared          *)
(* variables before a variable is declared: a statement whose counts    *)
(* differ fails with ValueCountMismatch, also when a declared name is   *)
(* the name of a variable in scope.                                     *)
C26_FanOutCheckPrecedesDeclaration ==
    /\ InitializersBeforeDeclarations
    /\ (Terminal /\ ~RefersToDeclared /\ FanOut # Len(TheStatement.variables)) =>
        /\ pc = "failed"
        /\ error.kind = "ValueCountMismatch"

(* var n: Int = R[Int].two(); failed with VariableRedefined: one       *)
(* variable, two values, and n is the first parameter.                 *)
C26_RedefinedBeforeCounted ==
    /\ pc = "failed"
    /\ error.kind = "VariableRedefined"
    /\ error.name = "n"
    /\ ~RefersToDeclared
    /\ Len(TheStatement.variables) = 1
    /\ FanOut = 2

---------------------------------------------------------------------------
(* The trees of applyOrderOfOperations.  BuiltTree is what the call on  *)
(* the chain of the state gives: the tree returned or, when a join was  *)
(* refused, the tree of that join.                                       *)

BuiltTree == applyOrderOfOperations(sources.operators, sources.operands)

RECURSIVE PrecedenceOrdered(_)
PrecedenceOrdered(tree) ==
    \/ tree.tag = "leaf"
    \/ \A child \in {tree.leftBranch, tree.rightBranch} :
        /\ child.tag = "branch" =>
            child.join.precedence >= tree.join.precedence
        /\ PrecedenceOrdered(child)

RECURSIVE TreeDepth(_)
TreeDepth(tree) ==
    IF tree.tag = "leaf" THEN 0
    ELSE LET l == TreeDepth(tree.leftBranch)
             r == TreeDepth(tree.rightBranch)
         IN  1 + (IF l > r THEN l ELSE r)

(* C27: in every tree applyOrderOfOperations builds the root of a child *)
(* subtree of a join has a precedence that is not below the precedence  *)
(* of the join, and the error "unreachable" of checkTreeCompatible is   *)
(* never thrown.                                                         *)
C27_ChildrenBindAtLeastAsTight ==
    /\ PrecedenceOrdered(BuiltTree.tree)
    /\ BuiltTree.err # PlainError("unreachable")
    /\ error # PlainError("unreachable")

(* a + b and c == d was returned: the join of and is the root, over the *)
(* joins of + and of ==.                                                 *)
C27_Witness ==
    /\ pc = "returned"
    /\ ChainStrings = <<"+", "and", "==">>
    /\ OpStr(result.join.opToken) = "and"
    /\ result.leftBranch.tag = "branch"
    /\ result.rightBranch.tag = "branch"
    /\ result.leftBranch.join.precedence > result.join.precedence

RECURSIVE WellSpanned(_)
WellSpanned(tree) ==
    IF tree.tag = "leaf"
    THEN /\ tree.left = tree.right
         /\ tree.operand = sources.operands[tree.left + 1]
    ELSE /\ tree.join.opToken = sources.operators[tree.join.index + 1]
         /\ tree.left = tree.leftBranch.left
         /\ tree.leftBranch.right = tree.join.index
         /\ tree.rightBranch.left = tree.join.index + 1
         /\ tree.right = tree.rightBranch.right
         /\ WellSpanned(tree.leftBranch)
         /\ WellSpanned(tree.rightBranch)

(* C28: the tree returned spans the operands 0..n of a chain of n       *)
(* operators, has every operand once as a leaf and every operator once  *)
(* as a join, in the order of the chain from left to right; the left    *)
(* subtree of the join of operator i ends at operand i and the right    *)
(* one starts at operand i + 1; a chain without operators gives the     *)
(* leaf of its operand.  The tree of a refused join is spanned in the   *)
(* same way.                                                             *)
C28_TreeSpansTheChain ==
    /\ WellSpanned(BuiltTree.tree)
    /\ pc = "returned" =>
        /\ result = BuiltTree.tree
        /\ result.left = 0
        /\ result.right = Len(sources.operators)
        /\ TreeOperands(result) = sources.operands
        /\ TreeOperators(result) = sources.operators
        /\ Len(sources.operators) = 0 =>
            result = OperatorTreeLeaf(sources.operands[1], 0)

(* a and b == c and d was returned: the join of the first and takes the *)
(* subtree that the later and has put at both of its ends.              *)
C28_Witness ==
    /\ pc = "returned"
    /\ ChainStrings = <<"and", "==", "and">>
    /\ result.join.index = 0
    /\ result.rightBranch.tag = "branch"
    /\ result.rightBranch.join.index = 2
    /\ result.rightBranch.leftBranch.tag = "branch"
    /\ result.rightBranch.left = 1
    /\ result.rightBranch.right = 3

---------------------------------------------------------------------------
(* Pass 3: what one call of compileEntity changes. *)

(* The entries of table after that were not in table before have their *)
(* keys in added, and the entries of before are as they were.          *)
OnlyAdds(before, after, added) ==
    /\ \A k \in Range(before.keys) :
        /\ k \in Range(after.keys)
        /\ after.at[k] = before.at[k]
    /\ \A k \in Range(after.keys) :
        k \in Range(before.keys) \/ k \in added
    /\ DOMAIN after.at = Range(after.keys)

(* The function ids of the entity that is compiled. *)
FunctionIdsOf(entityName) ==
    LET entity == programContext.entitiesByCanonical.at[entityName]
    IN  IF entity.tag = "record"
        THEN {entity.fns.at[f].id : f \in Range(entity.fns.keys)}
        ELSE {}

EntriesOfTheEntity ==
    LET entityName == Entities[idx]
        entity == programContext.entitiesByCanonical.at[entityName]
    IN  /\ OnlyAdds(program.records, program'.records,
                IF entity.tag = "record" THEN {entityName} ELSE {})
        /\ OnlyAdds(program.interfaces, program'.interfaces,
                IF entity.tag = "interface" THEN {entityName} ELSE {})
        /\ OnlyAdds(program.functions, program'.functions,
                FunctionIdsOf(entityName))
        /\ \A id \in FunctionIdsOf(entityName) :
            \A other \in Range(Entities) \ {entityName} :
                id \notin FunctionIdsOf(other)
        /\ program'.foreign = program.foreign
        /\ program'.globalVTableFactories = program.globalVTableFactories

ContextIsReadOnly ==
    /\ programContext' = programContext
    /\ sourceContext' = sourceContext
    /\ programContext'.hasCollectedMembers

CompileEntityFrame ==
    pc = "compileEntity" => ContextIsReadOnly /\ EntriesOfTheEntity

---------------------------------------------------------------------------
(* Sources about type parameters:                                       *)
(*     package p; import q; record A[#..] { }  interface I[#T] { }      *)
(* or the same with interface A[#..] { }, with up to MaxTypeParameters  *)
(* type parameters out of T, U, V, in any order and with repetitions;   *)
(* source 2 is package q; record T { }.                                 *)

MaxTypeParameters == 3

TypeParameterWords == {"T", "U", "V"}

EntityWithTypeParameters(tag, names) ==
    IF tag = "record"
    THEN RecordDefinition("A", TypeParameters(names, <<>>, 1, 1), <<>>, <<>>,
            1, 1)
    ELSE InterfaceDefinition("A", TypeParameters(names, <<>>, 1, 1), <<>>,
            1, 1)

TypeParametersInputs ==
    {<<Source(PackageDef("p", 1), Imports(<<<<"q", "">>>>, 1),
        <<EntityWithTypeParameters(tag, names),
          InterfaceDefinition("I", TypeParameters(<<"T">>, <<>>, 1, 2), <<>>,
            1, 2)>>),
       Source(PackageDef("q", 2), <<>>, EmptyRecords(<<"T">>, 2))>> :
        tag \in {"record", "interface"},
        names \in SeqUpTo(TypeParameterWords, MaxTypeParameters)}

InitTypeParameters == \E srcs \in TypeParametersInputs : Called(srcs)

SpecTypeParameters == InitTypeParameters /\ [][Next]_vars

(* What the source says of the type parameters of A. *)
DeclaredTypeParameters == TheDefinition.typeParameters.parameters

IsRepeated(j) == \E i \in 1..(j - 1) :
    DeclaredTypeParameters[i].name = DeclaredTypeParameters[j].name

SomeTypeParameterRepeated ==
    \E j \in DOMAIN DeclaredTypeParameters : IsRepeated(j)

FirstRepeated == CHOOSE j \in DOMAIN DeclaredTypeParameters :
    /\ IsRepeated(j)
    /\ \A k \in 1..(j - 1) : ~IsRepeated(k)

FirstDeclarationOf(name) == CHOOSE i \in DOMAIN DeclaredTypeParameters :
    /\ DeclaredTypeParameters[i].name = name
    /\ \A k \in 1..(i - 1) : DeclaredTypeParameters[k].name # name

(* The id of the first type parameter of an entity. *)
FirstTypeVariableId(definition) ==
    IF definition.tag = "record-definition" THEN 0 ELSE 1

(* The type scope of A, and whether collectTypeScope has returned for A *)
(* or has thrown.                                                        *)
TypeScopeOfA == programContext.entitiesByCanonical.at["p.A"].typeScope

TypeScopeCollected ==
    \/ pc = "collectMembers" /\ idx > 1
    \/ pc \in {"hasCollectedMembers", "compileEntity", "return", "returned"}

TypeScopeRefused == pc = "failed"

(* The names that have the id in the scope: the bound type variables, *)
(* and This for the id of thisType.                                    *)
NamesOfId(typeScope, id) ==
    {name \in DOMAIN typeScope.typeVariables :
        typeScope.typeVariables[name].variable.id = id}
    \cup (IF typeScope.thisType # Null /\ typeScope.thisType.id = id
          THEN {"This"} ELSE {})

(* The first count type parameters of A are bound in declaration order *)
(* and nothing else is.                                                 *)
BoundInDeclarationOrder(typeScope, count) ==
    LET first == FirstTypeVariableId(TheDefinition)
    IN  /\ DOMAIN typeScope.typeVariables =
            {DeclaredTypeParameters[i].name : i \in 1..count}
        /\ \A i \in 1..count :
            typeScope.typeVariables[DeclaredTypeParameters[i].name] =
                TypeVariableBinding(first + i - 1,
                    DeclaredTypeParameters[i].location)
        /\ Len(typeScope.typeVariableDebugNames) = first + count
        /\ \A name \in DOMAIN typeScope.typeVariables :
            typeScope.typeVariableDebugNames[
                typeScope.typeVariables[name].variable.id + 1] = name
        /\ \A id \in 0..(Len(typeScope.typeVariableDebugNames) - 1) :
            /\ Cardinality(NamesOfId(typeScope, id)) = 1
            /\ typeScope.typeVariableDebugNames[id + 1]
                \in NamesOfId(typeScope, id)
        /\ first = 1 => typeScope.thisType = TypeVariable(0)
        /\ first = 0 => typeScope.thisType = Null

(* C30: after collectTypeScope the i-th type parameter of an entity has *)
(* the type-variable id i in a record and i + 1 in an interface, where  *)
(* id 0 is This; typeVariableDebugNames at the id of a bound type       *)
(* variable is its name and every id below its length belongs to one    *)
(* name; a type-parameter name declared twice in one entity is refused  *)
(* with TypeVariableRedefined, and the second declaration gets no id.   *)
C30_TypeVariableIdsFollowDeclarations ==
    /\ TypeScopeCollected =>
        /\ ~SomeTypeParameterRepeated
        /\ BoundInDeclarationOrder(TypeScopeOfA, Len(DeclaredTypeParameters))
    /\ TypeScopeRefused =>
        /\ SomeTypeParameterRepeated
        /\ error = TypeVariableRedefinedErr(
                DeclaredTypeParameters[FirstRepeated].name,
                DeclaredTypeParameters[FirstDeclarationOf(
                    DeclaredTypeParameters[FirstRepeated].name)].location,
                DeclaredTypeParameters[FirstRepeated].location)
        /\ BoundInDeclarationOrder(TypeScopeOfA, FirstRepeated - 1)

(* interface A[#U, #T] was collected, T with the id 2, and then         *)
(* interface I[#T], where T has the id 1.                                *)
C30_Witness ==
    /\ pc = "returned"
    /\ TheDefinition.tag = "interface-definition"
    /\ Len(DeclaredTypeParameters) = 2
    /\ TypeScopeOfA.typeVariableDebugNames = <<"This", "U", "T">>
    /\ TypeScopeOfA.typeVariables["T"].variable.id = 2
    /\ programContext.entitiesByCanonical.at["p.I"].typeScope
            .typeVariables["T"].variable.id = 1

====
